---- MODULE Spec2Model ----
(***************************************************************************)
(* A model of the WHMCS stock monitor: the change detector, the WHMCS      *)
(* client's retried request, the event bus and the monitoring cycle.       *)
(*                                                                         *)
(* Specifications                                                          *)
(*   Spec        monitoring cycles of MonitoringEngine over the monitors   *)
(*   SpecRetry   single calls of WhmcsClient._make_request                 *)
(*   SpecBus     EventBus.subscribe / subscribe_all / emit / clear         *)
(*   SpecDetect  StockChangeDetector's two pure functions                  *)
(*   SpecCheck   _check_monitor's record and events for one observation    *)
(*   SpecSched   the interval job and the /monitoring/run-now endpoint     *)
(*   SpecCache   _set_cache / _get_from_cache / clear_cache under a clock  *)
(*   SpecProducts  get_products calls through the cache                    *)
(*   SpecKey     _get_cache_key on pairs of requests                       *)
(*   SpecAttempt   the classification of one upstream answer               *)
(*   SpecConcurrent  a cycle beside a writer of the configuration          *)
(*   SpecClient  WhmcsClient.__init__                                      *)
(*   SpecNormalize  _normalize_products_response                           *)
(*   SpecMsch    MonitorScheduler.start / shutdown                         *)
(*   SpecStore   MonitorConfigService create / update / delete             *)
(*   SpecLive    a cycle under fair scheduling of its steps                *)
(*   SpecLookup  get_product_inventory                                     *)
(*   SpecDeliver a cycle whose events reach subscribers that can raise     *)
(*   SpecTest    WhmcsClient.test_connection                               *)
(*   SpecReentrant  emit with handlers that call the bus                   *)
(* Every specification runs over the same variables; the variables of the  *)
(* components it does not exercise stay at their initial values.           *)
(***************************************************************************)
EXTENDS Integers, Sequences, FiniteSets, TLC

\* ------------------------------------------------------------------ bounds
NumMonitors == 2
MaxQty == 1
MaxCycles == 2
NumHandlers == 2
MaxRegs == 3
MaxArg == 2
MaxTriggers == 3
MaxTime == 3
MaxTtl == 2
MaxWords == 2
MaxEntries == 2
MaxCalls == 6
MaxRows == 3
NumSites == 2

\* ------------------------------------------------------- program constants
MAX_RETRIES == 3
RESTOCK_THRESHOLD == 0
WAIT_MULTIPLIER == 1
WAIT_MIN == 1
WAIT_MAX == 10
MAX_INSTANCES == 1

\* Optional[T]: None is the empty tuple, a present value v is <<v>>.
None == <<>>
Some(v) == <<v>>

MonitorIds == 1..NumMonitors
\* The quantities the upstream reports for a product: sold out, or MaxQty in stock.
Quantities == {0, MaxQty}

VARIABLES
  monitors,         \* monitor_configs table: id -> configuration row (committed)
  records,          \* stock_records table: id -> committed records, oldest first
  cycle_no,         \* number of cycles started so far (the clock of last_checked_at)
  pc,               \* position of run_monitoring_cycle
  active_monitors,  \* the list loaded at line 85
  idx,              \* index of the monitor being checked (the for loop)
  results,          \* the results dict of the running / last cycle
  log,              \* events emitted in the running / last cycle, in order
  checked,          \* monitors whose check was started in the cycle, in order
  outcomes,         \* how each finished check of the cycle ended, in order
  rq,               \* the _make_request call in progress
  net_log,          \* network attempts of the _make_request call, in order
  handlers,         \* EventBus._handlers: event kind -> handlers, in registration order
  global_handlers,  \* EventBus._global_handlers, in registration order
  em,               \* the EventBus.emit call in progress
  det,              \* arguments and results of the change detector's functions
  chk,              \* arguments and results of one _check_monitor observation
  inv,              \* the scheduler and the invocations of run_monitoring_cycle
  cache,            \* WhmcsClient._cache: cache key -> entry (data, expiry)
  now,              \* the clock datetime.now() reads
  wc,               \* the client's cache_ttl, its get_products call, and what was put and got
  ck,               \* arguments and results of _get_cache_key
  att,              \* one attempt of _make_request: the upstream's answer and its classification
  ctor,             \* one construction of a WhmcsClient: arguments, object state, result
  nrm,              \* one call of _normalize_products_response: response and result
  gp,               \* one call of get_product / get_product_inventory
  msch,             \* the MonitorScheduler object and the calls made on it
  store,            \* the websites and monitor_configs tables behind MonitorConfigService
  dl,               \* the emits of the running cycle as the bus delivers them to the subscribers
  tc                \* one call of WhmcsClient.test_connection

engineVars ==
  <<monitors, records, cycle_no, pc, active_monitors, idx, results, log, checked, outcomes>>
busVars == <<handlers, global_handlers, em>>
cacheVars == <<cache, now, wc>>
callVars == <<dl, tc>>
unitVars == <<att, ctor, nrm, gp, msch, store, callVars>>
auxVars == <<chk, inv, cacheVars, ck, unitVars>>
vars == <<engineVars, rq, net_log, busVars, det, auxVars>>

\* ------------------------------------------------------------ WHMCS client

\* What one network attempt can come back with (lines 153-197).
NetOutcomes ==
  {"success", "timeout", "connection_error", "http_error", "bad_json",
   "error_authentication", "error_invalid_identifier", "error_other"}

\* Classification of one attempt's outcome into what _make_request's body
\* returns or raises (lines 160-197).
ClassifyAttempt(o) ==
  CASE o = "success" -> "ok"
    [] o = "timeout" -> "WhmcsTimeoutError"
    [] o = "connection_error" -> "WhmcsConnectionError"
    [] o \in {"http_error", "bad_json", "error_other"} -> "WhmcsAPIError"
    [] o \in {"error_authentication", "error_invalid_identifier"} -> "WhmcsAuthenticationError"

ShouldRetry_AnyClientError(kind) == kind # "ok"

\* retry=retry_if_exception_type((WhmcsConnectionError, WhmcsTimeoutError))
ShouldRetry(kind) == kind \in {"WhmcsConnectionError", "WhmcsTimeoutError"}

ShouldStop_OffByOne(attempt_number) == attempt_number > MAX_RETRIES

\* stop=stop_after_attempt(MAX_RETRIES)
ShouldStop(attempt_number) == attempt_number >= MAX_RETRIES

RECURSIVE Pow2(_)
Pow2(n) == IF n <= 0 THEN 1 ELSE 2 * Pow2(n - 1)

Min(a, b) == IF a <= b THEN a ELSE b
Max(a, b) == IF a >= b THEN a ELSE b

WaitExponential_ExponentFromOne(attempt_number) ==
  Max(Max(0, WAIT_MIN), Min(WAIT_MULTIPLIER * Pow2(attempt_number), WAIT_MAX))

\* wait=wait_exponential(multiplier=1, min=1, max=10): the sleep after the
\* attempt numbered attempt_number.
WaitExponential(attempt_number) ==
  Max(Max(0, WAIT_MIN), Min(WAIT_MULTIPLIER * Pow2(attempt_number - 1), WAIT_MAX))

\* What the retry decorator raises once the stop condition holds after a
\* retryable failure: the decorator is built without reraise=True, so tenacity
\* wraps the last attempt in its RetryError.
RaisedOnStop(kind) == "RetryError"

RqIdle ==
  [state |-> "idle", params |-> None, attempts |-> 0, error |-> "", last |-> "",
   payload |-> None, waits |-> <<>>]

\* A call of _make_request('GetProducts', params) entering its first attempt.
RqStart(params) == [RqIdle EXCEPT !.state = "running", !.params = params]

\* The params the program passes: none, limitnum=1 (test_connection) or the pid
\* of one product (get_product).
RequestParams ==
  {None, Some([key |-> "limitnum", value |-> 1])}
    \cup {Some([key |-> "pid", value |-> m]) : m \in MonitorIds}

\* The body of a successful response: no product, or one product and its qty.
Payloads == {None} \cup {Some(q) : q \in Quantities}

\* One attempt of the running call with network outcome o and, on success,
\* response payload p; the retry decision and the sleep are part of the step.
RqAttempt(r, o, p) ==
  LET kind == ClassifyAttempt(o)
      n == r.attempts + 1
  IN  IF kind = "ok"
      THEN [r EXCEPT !.state = "returned", !.attempts = n, !.payload = Some(p),
                     !.last = kind]
      ELSE IF ~ShouldRetry(kind)
      THEN [r EXCEPT !.state = "raised", !.attempts = n, !.error = kind, !.last = kind]
      ELSE IF ShouldStop(n)
      THEN [r EXCEPT !.state = "raised", !.attempts = n, !.error = RaisedOnStop(kind),
                     !.last = kind]
      ELSE [r EXCEPT !.attempts = n, !.last = kind,
                     !.waits = Append(@, WaitExponential(n))]

\* --------------------------------------------------------- change detector

detect_change_type_Truthy(current_quantity, previous_quantity, delta) ==
  IF previous_quantity = None \/ previous_quantity = Some(0) THEN "initial"
  ELSE IF delta > RESTOCK_THRESHOLD THEN "restock"
  ELSE IF delta < 0 THEN "purchase"
  ELSE "unchanged"

detect_change_type(current_quantity, previous_quantity, delta) ==
  IF previous_quantity = None THEN "initial"
  ELSE IF delta > RESTOCK_THRESHOLD THEN "restock"
  ELSE IF delta < 0 THEN "purchase"
  ELSE "unchanged"

check_threshold_breach_HighFirst(current_quantity, threshold_low, threshold_high) ==
  IF threshold_high # None /\ current_quantity >= threshold_high[1]
  THEN <<TRUE, Some("high")>>
  ELSE IF threshold_low # None /\ current_quantity <= threshold_low[1]
  THEN <<TRUE, Some("low")>>
  ELSE <<FALSE, None>>

\* Returns <<breached, threshold_type>>; threshold_type is None, Some("low") or
\* Some("high").
check_threshold_breach(current_quantity, threshold_low, threshold_high) ==
  IF threshold_low # None /\ current_quantity <= threshold_low[1]
  THEN <<TRUE, Some("low")>>
  ELSE IF threshold_high # None /\ current_quantity >= threshold_high[1]
  THEN <<TRUE, Some("high")>>
  ELSE <<FALSE, None>>

\* ------------------------------------------------------------------ events

\* EventType (events.py lines 10-18).
EventType ==
  {"stock_increased", "stock_decreased", "stock_unchanged", "threshold_breach_low",
   "threshold_breach_high", "monitor_error", "monitor_started", "monitor_completed"}

\* A StockEvent: the fields the engine sets; Optional fields are None when unset.
StockEvent(type, mid) ==
  [event_type |-> type, monitor_config_id |-> mid, quantity |-> None,
   previous_quantity |-> None, delta |-> None, threshold_value |-> None,
   threshold_type |-> None, error_type |-> None, metadata |-> None]

\* --------------------------------------------------------------- event bus

\* log_event_handler, the handler events.py subscribes to every event.
LogHandler == 0

\* The bus at rest: the module-level event_bus with log_event_handler
\* subscribed to everything, and no emit in progress.
EmIdle ==
  [state |-> "idle", event_type |-> "", reg_specific |-> <<>>, reg_global |-> <<>>,
   all_handlers |-> <<>>, invoked |-> <<>>, raised |-> <<>>]

BusIdle ==
  /\ handlers = <<>>
  /\ global_handlers = <<LogHandler>>
  /\ em = EmIdle

\* Handlers the application subscribes.
HandlerIds == 1..NumHandlers

\* The event kinds the bus is exercised with.
BusKinds == {"stock_increased", "monitor_error"}

\* self._handlers.get(event_type, [])
HandlersFor(hs, kind) == IF kind \in DOMAIN hs THEN hs[kind] ELSE <<>>

AllHandlers_GlobalFirst(hs, gs, kind) == gs \o HandlersFor(hs, kind)

\* all_handlers = specific_handlers + self._global_handlers
AllHandlers(hs, gs, kind) == HandlersFor(hs, kind) \o gs

AfterHandler_Propagates(e, h, raises) ==
  IF raises
  THEN [e EXCEPT !.state = "raised", !.invoked = Append(@, h), !.raised = Append(@, raises)]
  ELSE [e EXCEPT !.invoked = Append(@, h), !.raised = Append(@, raises)]

\* One pass of the loop body: handler h is called; an exception it raises is
\* caught and logged, and the loop goes on.
AfterHandler(e, h, raises) ==
  [e EXCEPT !.invoked = Append(@, h), !.raised = Append(@, raises)]

\* Registrations made through subscribe and subscribe_all.
RECURSIVE SumLen(_, _)
SumLen(hs, ks) ==
  IF ks = {} THEN 0
  ELSE LET k == CHOOSE x \in ks : TRUE IN Len(hs[k]) + SumLen(hs, ks \ {k})

NumRegistrations == SumLen(handlers, DOMAIN handlers) + Len(global_handlers)

\* subscribe(event_type, handler)
Subscribe ==
  /\ em.state \in {"idle", "returned"}
  /\ NumRegistrations < MaxRegs + 1
  /\ \E kind \in BusKinds, h \in HandlerIds :
       handlers' = IF kind \in DOMAIN handlers
                   THEN [handlers EXCEPT ![kind] = Append(@, h)]
                   ELSE handlers @@ (kind :> <<h>>)
  /\ em' = EmIdle
  /\ UNCHANGED <<global_handlers, engineVars, rq, net_log, det, auxVars>>

\* subscribe_all(handler)
SubscribeAll ==
  /\ em.state \in {"idle", "returned"}
  /\ NumRegistrations < MaxRegs + 1
  /\ \E h \in HandlerIds : global_handlers' = Append(global_handlers, h)
  /\ em' = EmIdle
  /\ UNCHANGED <<handlers, engineVars, rq, net_log, det, auxVars>>

\* clear_handlers()
ClearHandlers ==
  /\ em.state \in {"idle", "returned"}
  /\ handlers' = <<>>
  /\ global_handlers' = <<>>
  /\ em' = EmIdle
  /\ UNCHANGED <<engineVars, rq, net_log, det, auxVars>>

\* emit(event), lines 66-69: the handler list is built from the registrations.
EmitBegin ==
  /\ em.state \in {"idle", "returned"}
  /\ \E kind \in BusKinds :
       em' = [EmIdle EXCEPT
                !.state = "dispatching",
                !.event_type = kind,
                !.reg_specific = HandlersFor(handlers, kind),
                !.reg_global = global_handlers,
                !.all_handlers = AllHandlers(handlers, global_handlers, kind)]
  /\ UNCHANGED <<handlers, global_handlers, engineVars, rq, net_log, det, auxVars>>

\* emit(event), lines 71-75: the next handler of the list runs and returns or
\* raises; log_event_handler only logs.
InvokeHandler ==
  /\ em.state = "dispatching"
  /\ Len(em.invoked) < Len(em.all_handlers)
  /\ LET h == em.all_handlers[Len(em.invoked) + 1]
     IN  \E raises \in (IF h = LogHandler THEN {FALSE} ELSE BOOLEAN) :
           em' = AfterHandler(em, h, raises)
  /\ UNCHANGED <<handlers, global_handlers, engineVars, rq, net_log, det, auxVars>>

\* emit(event) returns once the loop is through the list.
EmitReturn ==
  /\ em.state = "dispatching"
  /\ Len(em.invoked) = Len(em.all_handlers)
  /\ em' = [em EXCEPT !.state = "returned"]
  /\ UNCHANGED <<handlers, global_handlers, engineVars, rq, net_log, det, auxVars>>

\* ------------------------------------------------------- catalog lookups
\* The 'products' member of a GetProducts response as response.json() gives it,
\* and what _normalize_products_response, get_product and
\* get_product_inventory make of it.

\* A numeric member of a product object: absent, a string of digits (what the
\* upstream sends) or a JSON number.
RawInts == {None} \cup {<<"str", q>> : q \in Quantities} \cup {<<"num", q>> : q \in Quantities}

RawPids == {None, <<"str", 1>>, <<"num", 2>>}

\* int(product.get(name, 0)) for such a member.
int(raw) == IF raw = None THEN 0 ELSE raw[2]

\* One entry of the collection: a product object, or a JSON value that is no
\* object (a string, null).
NrmObjects == {[kind |-> "object", pid |-> a, qty |-> b] : a \in RawPids, b \in RawInts}

NrmOthers == {[kind |-> k, pid |-> None, qty |-> None] : k \in {"string", "null"}}

NrmEntries == NrmObjects \cup NrmOthers

NrmLists == UNION {[1..n -> NrmEntries] : n \in 0..MaxEntries}

\* The shapes of response.get('products', {}): the member is absent, null or a
\* string; it is a list; it is an object whose 'product' member is an object,
\* a list, a string or a scalar that cannot be iterated (null, a number); or it
\* is an object without 'product', taken by its values.
NrmShapes ==
  {<<"absent">>, <<"null">>, <<"string">>, <<"product_string">>, <<"product_scalar">>}
  \cup {<<"list", l>> : l \in NrmLists}
  \cup {<<"product_object", <<o>>>> : o \in NrmObjects}
  \cup {<<"product_list", l>> : l \in NrmLists}
  \cup {<<"values", l>> : l \in NrmLists}

\* Lines 294-305: the list the loop of line 308 runs over. For 'product' a
\* string the loop runs over its characters, none of which is a dict.
products_list(products_data) ==
  IF products_data[1] \in {"list", "product_object", "product_list", "values"}
  THEN products_data[2]
  ELSE <<>>

\* 'product' is null or a number: the for statement of line 308 raises
\* TypeError.
normalize_raises(products_data) == products_data[1] = "product_scalar"

\* Lines 310-324 for one product object.
normalized(product) == [id |-> int(product.pid), quantity |-> int(product.qty)]

RECURSIVE NormalizeEntries_KeepsOthers(_)
NormalizeEntries_KeepsOthers(entries) ==
  IF entries = <<>> THEN <<>>
  ELSE <<normalized(entries[1])>> \o NormalizeEntries_KeepsOthers(Tail(entries))

\* Lines 307-324: the loop, skipping what is not a dict.
RECURSIVE NormalizeEntries(_)
NormalizeEntries(entries) ==
  IF entries = <<>> THEN <<>>
  ELSE (IF entries[1].kind # "object" THEN <<>> ELSE <<normalized(entries[1])>>)
         \o NormalizeEntries(Tail(entries))

\* _normalize_products_response (lines 282-326) when it returns.
normalize_products_response(products_data) ==
  NormalizeEntries(products_list(products_data))

\* The answer of the upstream to a lookup filtered to pid: no product, or the
\* product with the quantity q.
PayloadResponse(payload, pid) ==
  IF payload = None THEN <<"product_list", <<>>>>
  ELSE <<"product_list",
         <<[kind |-> "object", pid |-> <<"str", pid>>, qty |-> <<"str", payload[1]>>]>>>>

get_product_Last(products) ==
  IF products # <<>> THEN Some(products[Len(products)]) ELSE None

\* get_product (line 249) on the list get_products returned:
\* products[0] if products else None.
get_product(products) ==
  IF products # <<>> THEN Some(products[1]) ELSE None

\* get_product_inventory (lines 269-280) on that list: raises WhmcsAPIError
\* when get_product gave None, else builds the inventory of the product.
get_product_inventory(product_id, products) ==
  LET product == get_product(products)
  IN  IF product = None
      THEN [raised |-> Some("WhmcsAPIError"), inventory |-> None]
      ELSE [raised |-> None,
            inventory |-> Some([product_id |-> product_id,
                                quantity |-> product[1].quantity])]

\* ------------------------------------------------------- monitoring engine

EmptyResults ==
  [monitors_checked |-> 0, records_created |-> 0, errors |-> 0,
   changes_detected |-> 0, threshold_breaches |-> 0]

\* _get_active_monitors: the rows whose is_active is true, in id order.
RECURSIVE ActiveFrom(_, _)
ActiveFrom(ms, i) ==
  IF i > NumMonitors THEN <<>>
  ELSE (IF ms[i].is_active THEN <<i>> ELSE <<>>) \o ActiveFrom(ms, i + 1)

get_active_monitors_IgnoresFlag(ms) == [i \in 1..NumMonitors |-> i]

get_active_monitors(ms) == ActiveFrom(ms, 1)

\* _get_latest_stock_record: the newest record of the monitor, or None.
get_latest_stock_record(recs, mid) ==
  IF Len(recs[mid]) = 0 THEN None ELSE Some(recs[mid][Len(recs[mid])])

NewRecord_DeltaReversed(monitor, mid, current_quantity, latest_record) ==
  LET previous_quantity == IF latest_record # None
                           THEN Some(latest_record[1].quantity) ELSE None
      delta == IF previous_quantity # None
               THEN previous_quantity[1] - current_quantity ELSE 0
      breach == check_threshold_breach(current_quantity, monitor.threshold_low,
                                       monitor.threshold_high)
  IN  [monitor_config_id |-> mid, quantity |-> current_quantity, delta |-> delta,
       change_type |-> detect_change_type(current_quantity, previous_quantity, delta),
       threshold_breached |-> breach[1], threshold_type |-> breach[2]]

NewRecord_DeltaFromZero(monitor, mid, current_quantity, latest_record) ==
  LET previous_quantity == IF latest_record # None
                           THEN Some(latest_record[1].quantity) ELSE None
      delta == IF previous_quantity # None
               THEN current_quantity - previous_quantity[1] ELSE current_quantity
      breach == check_threshold_breach(current_quantity, monitor.threshold_low,
                                       monitor.threshold_high)
  IN  [monitor_config_id |-> mid, quantity |-> current_quantity, delta |-> delta,
       change_type |-> detect_change_type(current_quantity, previous_quantity, delta),
       threshold_breached |-> breach[1], threshold_type |-> breach[2]]

\* The StockRecord _check_monitor builds for an observed quantity (lines 166-187).
NewRecord(monitor, mid, current_quantity, latest_record) ==
  LET previous_quantity == IF latest_record # None
                           THEN Some(latest_record[1].quantity) ELSE None
      delta == IF previous_quantity # None
               THEN current_quantity - previous_quantity[1] ELSE 0
      breach == check_threshold_breach(current_quantity, monitor.threshold_low,
                                       monitor.threshold_high)
  IN  [monitor_config_id |-> mid, quantity |-> current_quantity, delta |-> delta,
       change_type |-> detect_change_type(current_quantity, previous_quantity, delta),
       threshold_breached |-> breach[1], threshold_type |-> breach[2]]

EmitEvents_UnchangedOnFirst(monitor, record, previous_quantity) ==
  LET base == [StockEvent("", record.monitor_config_id) EXCEPT
                 !.quantity = Some(record.quantity),
                 !.previous_quantity = previous_quantity,
                 !.delta = Some(record.delta)]
      threshold ==
        IF record.threshold_breached /\ monitor.notify_on_threshold
        THEN <<[base EXCEPT
                  !.event_type = IF record.threshold_type = Some("low")
                                 THEN "threshold_breach_low"
                                 ELSE "threshold_breach_high",
                  !.threshold_value = IF record.threshold_type = Some("low")
                                      THEN monitor.threshold_low
                                      ELSE monitor.threshold_high,
                  !.threshold_type = record.threshold_type]>>
        ELSE <<>>
      stock ==
        IF record.delta > 0 /\ monitor.notify_on_restock
        THEN <<[base EXCEPT !.event_type = "stock_increased"]>>
        ELSE IF record.delta < 0 /\ monitor.notify_on_purchase
        THEN <<[base EXCEPT !.event_type = "stock_decreased"]>>
        ELSE IF record.delta = 0
        THEN <<[base EXCEPT !.event_type = "stock_unchanged"]>>
        ELSE <<>>
  IN  threshold \o stock

EmitEvents_ThresholdElif(monitor, record, previous_quantity) ==
  LET base == [StockEvent("", record.monitor_config_id) EXCEPT
                 !.quantity = Some(record.quantity),
                 !.previous_quantity = previous_quantity,
                 !.delta = Some(record.delta)]
  IN  IF record.threshold_breached /\ monitor.notify_on_threshold
      THEN <<[base EXCEPT
                !.event_type = IF record.threshold_type = Some("low")
                               THEN "threshold_breach_low"
                               ELSE "threshold_breach_high",
                !.threshold_value = IF record.threshold_type = Some("low")
                                    THEN monitor.threshold_low
                                    ELSE monitor.threshold_high,
                !.threshold_type = record.threshold_type]>>
      ELSE IF record.delta > 0 /\ monitor.notify_on_restock
      THEN <<[base EXCEPT !.event_type = "stock_increased"]>>
      ELSE IF record.delta < 0 /\ monitor.notify_on_purchase
      THEN <<[base EXCEPT !.event_type = "stock_decreased"]>>
      ELSE IF record.delta = 0 /\ previous_quantity # None
      THEN <<[base EXCEPT !.event_type = "stock_unchanged"]>>
      ELSE <<>>

EmitEvents_EdgeTriggered(monitor, record, previous_quantity) ==
  LET base == [StockEvent("", record.monitor_config_id) EXCEPT
                 !.quantity = Some(record.quantity),
                 !.previous_quantity = previous_quantity,
                 !.delta = Some(record.delta)]
      threshold ==
        IF record.threshold_breached /\ monitor.notify_on_threshold /\ record.delta # 0
        THEN <<[base EXCEPT
                  !.event_type = IF record.threshold_type = Some("low")
                                 THEN "threshold_breach_low"
                                 ELSE "threshold_breach_high",
                  !.threshold_value = IF record.threshold_type = Some("low")
                                      THEN monitor.threshold_low
                                      ELSE monitor.threshold_high,
                  !.threshold_type = record.threshold_type]>>
        ELSE <<>>
      stock ==
        IF record.delta > 0 /\ monitor.notify_on_restock
        THEN <<[base EXCEPT !.event_type = "stock_increased"]>>
        ELSE IF record.delta < 0 /\ monitor.notify_on_purchase
        THEN <<[base EXCEPT !.event_type = "stock_decreased"]>>
        ELSE IF record.delta = 0 /\ previous_quantity # None
        THEN <<[base EXCEPT !.event_type = "stock_unchanged"]>>
        ELSE <<>>
  IN  threshold \o stock

EmitEvents_StockFirst(monitor, record, previous_quantity) ==
  LET base == [StockEvent("", record.monitor_config_id) EXCEPT
                 !.quantity = Some(record.quantity),
                 !.previous_quantity = previous_quantity,
                 !.delta = Some(record.delta)]
      threshold ==
        IF record.threshold_breached /\ monitor.notify_on_threshold
        THEN <<[base EXCEPT
                  !.event_type = IF record.threshold_type = Some("low")
                                 THEN "threshold_breach_low"
                                 ELSE "threshold_breach_high",
                  !.threshold_value = IF record.threshold_type = Some("low")
                                      THEN monitor.threshold_low
                                      ELSE monitor.threshold_high,
                  !.threshold_type = record.threshold_type]>>
        ELSE <<>>
      stock ==
        IF record.delta > 0 /\ monitor.notify_on_restock
        THEN <<[base EXCEPT !.event_type = "stock_increased"]>>
        ELSE IF record.delta < 0 /\ monitor.notify_on_purchase
        THEN <<[base EXCEPT !.event_type = "stock_decreased"]>>
        ELSE IF record.delta = 0 /\ previous_quantity # None
        THEN <<[base EXCEPT !.event_type = "stock_unchanged"]>>
        ELSE <<>>
  IN  stock \o threshold

\* _emit_events: the events of one completed check, in emission order.
EmitEvents(monitor, record, previous_quantity) ==
  LET base == [StockEvent("", record.monitor_config_id) EXCEPT
                 !.quantity = Some(record.quantity),
                 !.previous_quantity = previous_quantity,
                 !.delta = Some(record.delta)]
      threshold ==
        IF record.threshold_breached /\ monitor.notify_on_threshold
        THEN <<[base EXCEPT
                  !.event_type = IF record.threshold_type = Some("low")
                                 THEN "threshold_breach_low"
                                 ELSE "threshold_breach_high",
                  !.threshold_value = IF record.threshold_type = Some("low")
                                      THEN monitor.threshold_low
                                      ELSE monitor.threshold_high,
                  !.threshold_type = record.threshold_type]>>
        ELSE <<>>
      stock ==
        IF record.delta > 0 /\ monitor.notify_on_restock
        THEN <<[base EXCEPT !.event_type = "stock_increased"]>>
        ELSE IF record.delta < 0 /\ monitor.notify_on_purchase
        THEN <<[base EXCEPT !.event_type = "stock_decreased"]>>
        ELSE IF record.delta = 0 /\ previous_quantity # None
        THEN <<[base EXCEPT !.event_type = "stock_unchanged"]>>
        ELSE <<>>
  IN  threshold \o stock

\* The except block of the for loop (lines 111-124): count the error, emit
\* monitor_error for the monitor; the rollback leaves the tables as committed.
ErrorEvent_CycleId(mid, error_type) ==
  [StockEvent("monitor_error", 0) EXCEPT !.error_type = Some(error_type)]

ErrorEvent(mid, error_type) ==
  [StockEvent("monitor_error", mid) EXCEPT !.error_type = Some(error_type)]

\* What the storage session does with one item's writes: both the flush and the
\* commit succeed, the flush (line 190) raises, or the commit (line 109) raises.
\* Either exception is an Exception and reaches the except block of line 111.
\* The block's first statement (line 112) reads monitor.id before the rollback
\* of line 124. A failed flush leaves the session's transaction rolled back and
\* every loaded instance expired, so that read has to reload the row through
\* the session and raises PendingRollbackError; after a failed COMMIT statement
\* the instance is still loaded and the block completes. Both continuations of
\* a storage failure are kept: ItemChecked when the block completes,
\* ExceptBlockRaised when it raises.
DbOutcomes == {"ok", "flush_error", "commit_error"}

CurrentMonitor == active_monitors[idx]

AfterItem(i) == IF i >= Len(active_monitors) THEN "complete" ELSE "loop"

\* Line 68: the cycle starts by emitting monitor_started, then builds results.
EmitStarted ==
  /\ pc \in {"idle", "done", "raised"}
  /\ cycle_no < MaxCycles
  /\ cycle_no' = cycle_no + 1
  /\ log' = <<StockEvent("monitor_started", 0)>>
  /\ results' = EmptyResults
  /\ active_monitors' = <<>>
  /\ idx' = 0
  /\ pc' = "started"
  /\ checked' = <<>>
  /\ outcomes' = <<>>
  /\ UNCHANGED <<monitors, records, rq, net_log, busVars, det, auxVars>>

\* Lines 84-93: open the session, load the active monitors, return early when
\* there are none, build the client. Opening the session, the query and the
\* construction of the client can each raise; nothing catches that.
LoadMonitors ==
  /\ pc = "started"
  /\ \E structural_ok \in BOOLEAN :
       IF ~structural_ok
       THEN /\ pc' = "raised"
            /\ UNCHANGED <<active_monitors, idx, results>>
       ELSE LET loaded == get_active_monitors(monitors)
            IN  /\ active_monitors' = loaded
                /\ results' = [results EXCEPT !.monitors_checked = Len(loaded)]
                /\ idx' = IF Len(loaded) = 0 THEN 0 ELSE 1
                /\ pc' = IF Len(loaded) = 0 THEN "done" ELSE "loop"
  /\ UNCHANGED <<monitors, records, cycle_no, log, checked, outcomes, rq, net_log, busVars, det, auxVars>>

\* Line 97 / 157: the loop body starts _check_monitor, which calls
\* get_product_inventory(product_id, use_cache=False) -> _make_request.
BeginCheck ==
  /\ pc = "loop"
  /\ checked' = Append(checked, CurrentMonitor)
  /\ rq' = RqStart(Some([key |-> "pid", value |-> CurrentMonitor]))
  /\ pc' = "fetch"
  /\ UNCHANGED <<monitors, records, cycle_no, active_monitors, idx, results, log, outcomes,
                 net_log, busVars, det, auxVars>>

\* One network attempt of the request in progress. A successful response holds
\* the product (its quantity) or no product at all.
Attempt ==
  /\ pc = "fetch"
  /\ rq.state = "running"
  /\ \E o \in NetOutcomes, p \in Payloads :
       rq' = RqAttempt(rq, o, IF o = "success" THEN p ELSE None)
  /\ UNCHANGED <<engineVars, net_log, busVars, det, auxVars>>

\* The outcome of the loop body when the check raised error_type before
\* anything was emitted: lines 111-124.
ItemFailed_Uncounted(error_type) ==
  /\ results' = results
  /\ log' = Append(log, ErrorEvent(CurrentMonitor, error_type))
  /\ UNCHANGED <<monitors, records>>

ItemFailed_TouchesRow(error_type) ==
  /\ results' = [results EXCEPT !.errors = @ + 1]
  /\ log' = Append(log, ErrorEvent(CurrentMonitor, error_type))
  /\ monitors' = [monitors EXCEPT ![CurrentMonitor].last_checked_at = cycle_no]
  /\ UNCHANGED records

ItemFailed_DropsLatest(error_type) ==
  /\ results' = [results EXCEPT !.errors = @ + 1]
  /\ log' = Append(log, ErrorEvent(CurrentMonitor, error_type))
  /\ records' = [records EXCEPT ![CurrentMonitor] =
                   IF @ = <<>> THEN @ ELSE SubSeq(@, 1, Len(@) - 1)]
  /\ UNCHANGED monitors

ItemFailed(error_type) ==
  /\ results' = [results EXCEPT !.errors = @ + 1]
  /\ log' = Append(log, ErrorEvent(CurrentMonitor, error_type))
  /\ UNCHANGED <<monitors, records>>

\* The check of the current monitor raised error_type inside
\* get_product_inventory (the request raised, or the product is not upstream).
FetchFailed(error_type) ==
  /\ ItemFailed(error_type)
  /\ outcomes' = Append(outcomes, "fetch_error")

ItemChecked_CountsNotified(current_quantity, db) ==
  LET mid == CurrentMonitor
      monitor == monitors[mid]
      latest_record == get_latest_stock_record(records, mid)
      previous_quantity == IF latest_record # None
                           THEN Some(latest_record[1].quantity) ELSE None
      new_record == NewRecord(monitor, mid, current_quantity, latest_record)
      emitted == EmitEvents(monitor, new_record, previous_quantity)
      counted == [results EXCEPT
                    !.records_created = @ + 1,
                    !.changes_detected =
                       IF new_record.delta # 0 /\ monitor.notify_on_restock
                       THEN @ + 1 ELSE @,
                    !.threshold_breaches =
                       IF new_record.threshold_breached /\ monitor.notify_on_threshold
                       THEN @ + 1 ELSE @]
  IN  /\ outcomes' = Append(outcomes, db)
      /\ CASE db = "ok" ->
               /\ records' = [records EXCEPT ![mid] = Append(@, new_record)]
               /\ monitors' = [monitors EXCEPT ![mid].last_checked_at = cycle_no]
               /\ results' = counted
               /\ log' = log \o emitted
          [] db = "flush_error" -> ItemFailed("SQLAlchemyError")
          [] db = "commit_error" ->
               /\ results' = [counted EXCEPT !.errors = @ + 1]
               /\ log' = (log \o emitted) \o <<ErrorEvent(mid, "SQLAlchemyError")>>
               /\ UNCHANGED <<monitors, records>>

\* Lines 159-196 and 101-109 for an observed quantity, under storage outcome db.
ItemChecked(current_quantity, db) ==
  LET mid == CurrentMonitor
      monitor == monitors[mid]
      latest_record == get_latest_stock_record(records, mid)
      previous_quantity == IF latest_record # None
                           THEN Some(latest_record[1].quantity) ELSE None
      new_record == NewRecord(monitor, mid, current_quantity, latest_record)
      emitted == EmitEvents(monitor, new_record, previous_quantity)
      counted == [results EXCEPT
                    !.records_created = @ + 1,
                    !.changes_detected = IF new_record.delta # 0 THEN @ + 1 ELSE @,
                    !.threshold_breaches =
                       IF new_record.threshold_breached THEN @ + 1 ELSE @]
  IN  /\ outcomes' = Append(outcomes, db)
      /\ CASE db = "ok" ->
               /\ records' = [records EXCEPT ![mid] = Append(@, new_record)]
               /\ monitors' = [monitors EXCEPT ![mid].last_checked_at = cycle_no]
               /\ results' = counted
               /\ log' = log \o emitted
          [] db = "flush_error" -> ItemFailed("SQLAlchemyError")
          [] db = "commit_error" ->
               /\ results' = [counted EXCEPT !.errors = @ + 1]
               /\ log' = (log \o emitted) \o <<ErrorEvent(mid, "SQLAlchemyError")>>
               /\ UNCHANGED <<monitors, records>>

\* Lines 111-112 when the storage failure db left the session unusable: the
\* except block raises at its first statement, before errors is incremented and
\* before monitor_error is emitted (lines 113-122) and before the rollback
\* (line 124). What _check_monitor emitted and what lines 101-106 counted before
\* a failing commit stays; the session is closed by get_db_context without a
\* commit, so no row changes.
ExceptBlockRaised(current_quantity, db) ==
  LET mid == CurrentMonitor
      monitor == monitors[mid]
      latest_record == get_latest_stock_record(records, mid)
      previous_quantity == IF latest_record # None
                           THEN Some(latest_record[1].quantity) ELSE None
      new_record == NewRecord(monitor, mid, current_quantity, latest_record)
      emitted == EmitEvents(monitor, new_record, previous_quantity)
      counted == [results EXCEPT
                    !.records_created = @ + 1,
                    !.changes_detected = IF new_record.delta # 0 THEN @ + 1 ELSE @,
                    !.threshold_breaches =
                       IF new_record.threshold_breached THEN @ + 1 ELSE @]
  IN  /\ outcomes' = Append(outcomes, IF db = "commit_error"
                                       THEN "commit_error_raised"
                                       ELSE "flush_error_raised")
      /\ results' = IF db = "commit_error" THEN counted ELSE results
      /\ log' = IF db = "commit_error" THEN log \o emitted ELSE log
      /\ UNCHANGED <<monitors, records>>

\* The rest of the loop body once _make_request has returned or raised: the
\* item ends and the loop goes on (lines 97-124), or the except block itself
\* raises and the exception leaves run_monitoring_cycle.
FinishCheck ==
  /\ pc = "fetch"
  /\ rq.state \in {"returned", "raised"}
  /\ \/ /\ IF rq.state = "raised" THEN FetchFailed(rq.error)
           ELSE LET inventory == get_product_inventory(CurrentMonitor,
                                   normalize_products_response(
                                     PayloadResponse(rq.payload[1], CurrentMonitor)))
                IN  IF inventory.raised # None THEN FetchFailed(inventory.raised[1])
                    ELSE \E db \in DbOutcomes :
                           ItemChecked(inventory.inventory[1].quantity, db)
        /\ idx' = idx + 1
        /\ pc' = AfterItem(idx)
     \/ /\ rq.state = "returned"
        /\ rq.payload[1] # None
        /\ \E db \in DbOutcomes \ {"ok"} : ExceptBlockRaised(rq.payload[1][1], db)
        /\ idx' = idx
        /\ pc' = "raised"
  /\ rq' = RqIdle
  /\ UNCHANGED <<cycle_no, active_monitors, checked, net_log, busVars, det, auxVars>>

\* Lines 126-136: after the loop, emit monitor_completed with the results and
\* return them.
Complete ==
  /\ pc = "complete"
  /\ log' = Append(log, [StockEvent("monitor_completed", 0) EXCEPT
                           !.metadata = Some(results)])
  /\ pc' = "done"
  /\ UNCHANGED <<monitors, records, cycle_no, active_monitors, idx, results, checked,
                 outcomes, rq, net_log, busVars, det, auxVars>>

\* The detector harness at rest.
DetIdle == [args |-> None, change_type |-> None, breach |-> None]

\* No _check_monitor observation under way.
ChkIdle == [args |-> None, record |-> None, events |-> None, ret |-> None]

\* MonitorScheduler after construction (scheduler.py lines 15-18): not started,
\* no job instance and no on-demand cycle running.
InvIdle ==
  [running |-> FALSE, paused |-> FALSE, job_instances |-> 0, on_demand |-> 0,
   fires |-> 0, skipped |-> 0, requests |-> 0]

\* No get_products call under way.
GpIdle ==
  [state |-> "idle", use_cache |-> FALSE, filters |-> <<>>, cache_key |-> <<>>,
   seen |-> None, result |-> None, requests |-> 0, began |-> 0, ended |-> 0]

\* A client just constructed (whmcs_client.py lines 77-84): an empty cache.
WcIdle == [cache_ttl |-> MaxTtl, call |-> GpIdle, put |-> <<>>, got |-> None]

\* No _get_cache_key application under way.
CkIdle == [a |-> None, b |-> None, key_a |-> None, key_b |-> None]

\* The components the engine's cycle does not exercise, at rest.
\* No attempt classified, no client constructed, nothing normalized, no
\* product looked up.
AttIdle == [response |-> None, kind |-> None]
CtorIdle == [args |-> None, called |-> FALSE, api_url |-> None, cache |-> None,
             session |-> FALSE, requests |-> 0, raised |-> None]
NrmIdle == [response |-> None, result |-> None]
GpIdle2 == [product_id |-> None, lookup |-> None, product |-> None, inventory |-> None,
            raised |-> None]

\* MonitorScheduler.__init__ (lines 15-18): no scheduler object, not running;
\* no call made yet.
MschIdle == [is_running |-> FALSE, schedulers |-> 0, jobs |-> <<>>, calls |-> <<>>]

\* Empty tables.
StoreIdle == [websites |-> {}, monitors |-> {}, next_id |-> 1, last |-> None]

\* No emit of a cycle delivered yet.
DlIdle == [cycle |-> 0, delivered |-> 0, last |-> None, hit |-> {}]

\* No test_connection call made.
TcIdle == [state |-> "idle", result |-> None, raised |-> None, cache_before |-> None]

CallIdle ==
  /\ dl = DlIdle
  /\ tc = TcIdle

UnitIdle ==
  /\ CallIdle
  /\ att = AttIdle
  /\ ctor = CtorIdle
  /\ nrm = NrmIdle
  /\ gp = GpIdle2
  /\ msch = MschIdle
  /\ store = StoreIdle

AuxIdle ==
  /\ chk = ChkIdle
  /\ inv = InvIdle
  /\ cache = <<>>
  /\ now = 0
  /\ wc = WcIdle
  /\ ck = CkIdle
  /\ UnitIdle

\* The configurations the store holds when the engine starts.
ConfigA ==
  [is_active |-> TRUE, threshold_low |-> Some(0), threshold_high |-> None,
   notify_on_restock |-> TRUE, notify_on_purchase |-> TRUE,
   notify_on_threshold |-> TRUE, last_checked_at |-> 0]

ConfigB ==
  [is_active |-> TRUE, threshold_low |-> None, threshold_high |-> Some(1),
   notify_on_restock |-> FALSE, notify_on_purchase |-> FALSE,
   notify_on_threshold |-> FALSE, last_checked_at |-> 0]

\* Odd ids notify on everything and watch a low threshold, even ids notify on
\* nothing and watch a high threshold; any subset of the monitors is active.
ConfigOf(m) == IF m % 2 = 1 THEN ConfigA ELSE ConfigB

Init ==
  /\ \E act \in [MonitorIds -> BOOLEAN] :
       monitors = [m \in MonitorIds |-> [ConfigOf(m) EXCEPT !.is_active = act[m]]]
  /\ records = [m \in MonitorIds |-> <<>>]
  /\ cycle_no = 0
  /\ pc = "idle"
  /\ active_monitors = <<>>
  /\ idx = 0
  /\ results = EmptyResults
  /\ log = <<>>
  /\ checked = <<>>
  /\ outcomes = <<>>
  /\ rq = RqIdle
  /\ net_log = <<>>
  /\ BusIdle
  /\ det = DetIdle
  /\ AuxIdle

Next ==
  \/ EmitStarted
  \/ LoadMonitors
  \/ BeginCheck
  \/ Attempt
  \/ FinishCheck
  \/ Complete

Spec == Init /\ [][Next]_vars

\* --------------------------------------------- _make_request on its own

\* The engine at rest, for the specifications that exercise one component.
EngineIdle ==
  /\ monitors = [m \in MonitorIds |-> ConfigOf(m)]
  /\ records = [m \in MonitorIds |-> <<>>]
  /\ cycle_no = 0
  /\ pc = "idle"
  /\ active_monitors = <<>>
  /\ idx = 0
  /\ results = EmptyResults
  /\ log = <<>>
  /\ checked = <<>>
  /\ outcomes = <<>>

\* A caller invokes _make_request with some params; the previous call, if any,
\* has returned or raised.
CallMakeRequest ==
  /\ rq.state \in {"idle", "returned", "raised"}
  /\ \E params \in RequestParams : rq' = RqStart(params)
  /\ net_log' = <<>>
  /\ UNCHANGED <<engineVars, busVars, det, auxVars>>

\* One network attempt of the call, recorded as the test suite's
\* responses.calls records it.
NetworkAttempt ==
  /\ rq.state = "running"
  /\ \E o \in NetOutcomes, p \in Payloads :
       LET body == IF o = "success" THEN p ELSE None
       IN  /\ rq' = RqAttempt(rq, o, body)
           /\ net_log' = Append(net_log, [outcome |-> o, payload |-> body])
  /\ UNCHANGED <<engineVars, busVars, det, auxVars>>

InitRetry ==
  /\ EngineIdle
  /\ rq = RqIdle
  /\ net_log = <<>>
  /\ BusIdle
  /\ det = DetIdle
  /\ AuxIdle

NextRetry ==
  \/ CallMakeRequest
  \/ NetworkAttempt

SpecRetry == InitRetry /\ [][NextRetry]_vars

\* ------------------------------------------------- the event bus on its own

InitBus ==
  /\ EngineIdle
  /\ rq = RqIdle
  /\ net_log = <<>>
  /\ BusIdle
  /\ det = DetIdle
  /\ AuxIdle

NextBus ==
  \/ Subscribe
  \/ SubscribeAll
  \/ ClearHandlers
  \/ EmitBegin
  \/ InvokeHandler
  \/ EmitReturn

SpecBus == InitBus /\ [][NextBus]_vars

\* ------------------------------------------ the change detector on its own

OptArgs == {None} \cup {Some(v) : v \in 0..MaxArg}

\* The argument tuples the two functions are applied to.
DetArgs ==
  [current_quantity : 0..MaxArg, previous_quantity : OptArgs, delta : (-MaxArg)..MaxArg,
   threshold_low : OptArgs, threshold_high : OptArgs]

\* detect_change_type is applied to the arguments.
DetectChange ==
  /\ det.change_type = None
  /\ det' = [det EXCEPT !.change_type =
               Some(detect_change_type(det.args.current_quantity,
                                       det.args.previous_quantity, det.args.delta))]
  /\ UNCHANGED <<engineVars, rq, net_log, busVars, auxVars>>

\* check_threshold_breach is applied to the arguments.
CheckThreshold ==
  /\ det.breach = None
  /\ det' = [det EXCEPT !.breach =
               Some(check_threshold_breach(det.args.current_quantity,
                                           det.args.threshold_low,
                                           det.args.threshold_high))]
  /\ UNCHANGED <<engineVars, rq, net_log, busVars, auxVars>>

InitDetect ==
  /\ EngineIdle
  /\ rq = RqIdle
  /\ net_log = <<>>
  /\ BusIdle
  /\ \E a \in DetArgs : det = [args |-> a, change_type |-> None, breach |-> None]
  /\ AuxIdle

NextDetect ==
  \/ DetectChange
  \/ CheckThreshold

SpecDetect == InitDetect /\ [][NextDetect]_vars

\* ------------------------------------------- _check_monitor on its own

\* One observation: the monitor's thresholds and toggles, the quantity of its
\* latest record if it has one, and the quantity the upstream reports.
ChkArgs ==
  [threshold_low : OptArgs, threshold_high : OptArgs,
   notify_on_restock : BOOLEAN, notify_on_purchase : BOOLEAN,
   notify_on_threshold : BOOLEAN,
   previous_quantity : OptArgs, current_quantity : 0..MaxArg]

\* The MonitorConfig row of the observation.
ChkMonitor(a) ==
  [is_active |-> TRUE, threshold_low |-> a.threshold_low,
   threshold_high |-> a.threshold_high, notify_on_restock |-> a.notify_on_restock,
   notify_on_purchase |-> a.notify_on_purchase,
   notify_on_threshold |-> a.notify_on_threshold, last_checked_at |-> 0]

\* What _get_latest_stock_record returns for the observation.
ChkLatest(a) ==
  IF a.previous_quantity = None THEN None
  ELSE Some([quantity |-> a.previous_quantity[1]])

\* Lines 166-190: the record is built from the fetched quantity and flushed.
CheckMonitorBuild ==
  /\ chk.args # None
  /\ chk.record = None
  /\ LET a == chk.args[1]
     IN  chk' = [chk EXCEPT !.record =
                   Some(NewRecord(ChkMonitor(a), 1, a.current_quantity, ChkLatest(a)))]
  /\ UNCHANGED <<engineVars, rq, net_log, busVars, det, inv, cacheVars, ck, unitVars>>

\* Lines 192-196: the events are emitted and the three flags returned.
CheckMonitorEmit ==
  /\ chk.record # None
  /\ chk.ret = None
  /\ LET a == chk.args[1]
         record == chk.record[1]
     IN  chk' = [chk EXCEPT
                   !.events = Some(EmitEvents(ChkMonitor(a), record, a.previous_quantity)),
                   !.ret = Some(<<TRUE, record.delta # 0, record.threshold_breached>>)]
  /\ UNCHANGED <<engineVars, rq, net_log, busVars, det, inv, cacheVars, ck, unitVars>>

InitCheck ==
  /\ EngineIdle
  /\ rq = RqIdle
  /\ net_log = <<>>
  /\ BusIdle
  /\ det = DetIdle
  /\ \E a \in ChkArgs : chk = [ChkIdle EXCEPT !.args = Some(a)]
  /\ inv = InvIdle
  /\ cache = <<>>
  /\ now = 0
  /\ wc = WcIdle
  /\ ck = CkIdle
  /\ UnitIdle

NextCheck ==
  \/ CheckMonitorBuild
  \/ CheckMonitorEmit

SpecCheck == InitCheck /\ [][NextCheck]_vars

\* ------------------------- the scheduler and the on-demand trigger

\* Everything but the scheduler's state.
notInv == <<engineVars, rq, net_log, busVars, det, chk, cacheVars, ck, unitVars>>

\* MonitorScheduler.start (lines 35-60), called by the application's lifespan:
\* the interval job is added with max_instances=1 and coalesce=True.
SchedulerStart ==
  /\ ~inv.running
  /\ inv' = [inv EXCEPT !.running = TRUE]
  /\ UNCHANGED notInv

\* The interval trigger comes due. The scheduler is an AsyncIOScheduler, so it
\* wakes on the event loop, which must be free; run_monitoring_cycle is a
\* plain function, which the scheduler's executor runs on a worker thread.
\* While max_instances instances of the job run, the run is skipped.
IntervalFire ==
  /\ inv.running
  /\ ~inv.paused
  /\ inv.on_demand = 0
  /\ inv.fires < MaxTriggers
  /\ inv' = IF inv.job_instances < MAX_INSTANCES
            THEN [inv EXCEPT !.fires = @ + 1, !.job_instances = @ + 1]
            ELSE [inv EXCEPT !.fires = @ + 1, !.skipped = @ + 1]
  /\ UNCHANGED notInv

\* The job's run_monitoring_cycle returns or raises on its worker thread.
JobDone ==
  /\ inv.job_instances > 0
  /\ inv' = [inv EXCEPT !.job_instances = @ - 1]
  /\ UNCHANGED notInv

\* POST /monitoring/run-now (main.py lines 84-87): the handler is a coroutine
\* that calls run_monitoring_cycle itself, on the event loop, whatever the
\* scheduler's job is doing.
TriggerMonitoring ==
  /\ inv.running
  /\ inv.on_demand = 0
  /\ inv.requests < MaxTriggers
  /\ inv' = [inv EXCEPT !.requests = @ + 1, !.on_demand = @ + 1]
  /\ UNCHANGED notInv

\* main.py lines 88-91: the on-demand cycle is over and the handler answers.
TriggerMonitoringReturn ==
  /\ inv.on_demand > 0
  /\ inv' = [inv EXCEPT !.on_demand = @ - 1]
  /\ UNCHANGED notInv

\* POST /scheduler/pause
PauseScheduler ==
  /\ inv.running
  /\ inv.on_demand = 0
  /\ ~inv.paused
  /\ inv' = [inv EXCEPT !.paused = TRUE]
  /\ UNCHANGED notInv

\* POST /scheduler/resume
ResumeScheduler ==
  /\ inv.running
  /\ inv.on_demand = 0
  /\ inv.paused
  /\ inv' = [inv EXCEPT !.paused = FALSE]
  /\ UNCHANGED notInv

InitSched ==
  /\ EngineIdle
  /\ rq = RqIdle
  /\ net_log = <<>>
  /\ BusIdle
  /\ det = DetIdle
  /\ AuxIdle

NextSched ==
  \/ SchedulerStart
  \/ IntervalFire
  \/ JobDone
  \/ TriggerMonitoring
  \/ TriggerMonitoringReturn
  \/ PauseScheduler
  \/ ResumeScheduler

SpecSched == InitSched /\ [][NextSched]_vars

\* ------------------------------------------------- the client's cache

\* The filter names get_products is called with, in the order Python's
\* sorted() puts them.
ParamNames == <<"gid", "module", "pid">>

NameRank(name) == CHOOSE i \in 1..Len(ParamNames) : ParamNames[i] = name

\* sorted(params.items()): the (name, value) pairs by name; the names of a
\* dict are distinct, so the values never decide.
RECURSIVE InsertSorted(_, _)
InsertSorted(pair, items) ==
  IF items = <<>> THEN <<pair>>
  ELSE IF NameRank(pair.key) <= NameRank(items[1].key) THEN <<pair>> \o items
  ELSE <<items[1]>> \o InsertSorted(pair, Tail(items))

RECURSIVE sorted(_)
sorted(items) ==
  IF items = <<>> THEN <<>> ELSE InsertSorted(items[1], sorted(Tail(items)))

\* str() of a list of (name, value) tuples, as the characters it writes:
\* [('gid', 2), ('pid', 1)]
StrPair(pair) == <<"(", "'", pair.key, "'", ", ", ToString(pair.value), ")">>

RECURSIVE StrItems(_)
StrItems(items) ==
  IF items = <<>> THEN <<>>
  ELSE IF Len(items) = 1 THEN StrPair(items[1])
  ELSE StrPair(items[1]) \o <<", ">> \o StrItems(Tail(items))

StrList(items) == <<"[">> \o StrItems(items) \o <<"]">>

get_cache_key_Unsorted(action, params) ==
  IF params # <<>> THEN <<action, ":">> \o StrList(params) ELSE <<action>>

\* _get_cache_key (lines 86-92); params is the dict as its items in insertion
\* order, empty for None and for {}.
get_cache_key(action, params) ==
  IF params # <<>> THEN <<action, ":">> \o StrList(sorted(params)) ELSE <<action>>

\* The requests _get_cache_key is applied to: an action name and up to two
\* filters with distinct names, in either insertion order.
CkActions == {"GetProducts", "GetOrders"}

CkPairs == [key : {"gid", "pid"}, value : 1..MaxArg]

CkParams ==
  {<<>>} \cup {<<x>> : x \in CkPairs}
    \cup {<<x, y>> : <<x, y>> \in {z \in CkPairs \X CkPairs : z[1].key # z[2].key}}

CkRequests == [action : CkActions, params : CkParams]

\* Everything but the cache-key harness.
notCk == <<engineVars, rq, net_log, busVars, det, chk, inv, cacheVars, unitVars>>

\* _get_cache_key is applied to the first request.
CacheKeyOfA ==
  /\ ck.a # None
  /\ ck.key_a = None
  /\ ck' = [ck EXCEPT !.key_a = Some(get_cache_key(ck.a[1].action, ck.a[1].params))]
  /\ UNCHANGED notCk

\* _get_cache_key is applied to the second request.
CacheKeyOfB ==
  /\ ck.b # None
  /\ ck.key_b = None
  /\ ck' = [ck EXCEPT !.key_b = Some(get_cache_key(ck.b[1].action, ck.b[1].params))]
  /\ UNCHANGED notCk

InitKey ==
  /\ EngineIdle
  /\ rq = RqIdle
  /\ net_log = <<>>
  /\ BusIdle
  /\ det = DetIdle
  /\ chk = ChkIdle
  /\ inv = InvIdle
  /\ cache = <<>>
  /\ now = 0
  /\ wc = WcIdle
  /\ \E a \in CkRequests, b \in CkRequests :
       ck = [CkIdle EXCEPT !.a = Some(a), !.b = Some(b)]
  /\ UnitIdle

NextKey ==
  \/ CacheKeyOfA
  \/ CacheKeyOfB

SpecKey == InitKey /\ [][NextKey]_vars

\* --------------------------------------- the cache and get_products

\* The filters get_products is called with: none (every product), or the pid
\* of one product.
ProductFilters == {<<>>, <<[key |-> "pid", value |-> 1]>>}

CacheKeys == {get_cache_key("GetProducts", f) : f \in ProductFilters}

\* The lists get_products can return for the answers of the upstream.
ProductLists == {normalize_products_response(PayloadResponse(p, 1)) : p \in Payloads}

\* CacheEntry(data, ttl_seconds) built at time t (lines 28-30).
CacheEntry(data, ttl_seconds, t) == [data |-> data, expiry |-> t + ttl_seconds]

\* CacheEntry.is_expired at time t (line 34).
is_expired(entry, t) == t > entry.expiry

Without(c, key) == [k \in (DOMAIN c) \ {key} |-> c[k]]

get_from_cache_KeepsExpired(c, key, t) ==
  IF key \in DOMAIN c /\ ~is_expired(c[key], t)
  THEN <<Some(c[key].data), c>>
  ELSE <<None, c>>

\* _get_from_cache (lines 94-104) at time t: <<what it returns, the cache it
\* leaves>>; a hit returns Some(data), a miss None.
get_from_cache(c, key, t) ==
  IF key \in DOMAIN c
  THEN IF ~is_expired(c[key], t)
       THEN <<Some(c[key].data), c>>
       ELSE <<None, Without(c, key)>>
  ELSE <<None, c>>

\* _set_cache (lines 106-109) at time t.
set_cache(c, key, data, t) ==
  [k \in (DOMAIN c) \cup {key} |->
     IF k = key THEN CacheEntry(data, wc.cache_ttl, t) ELSE c[k]]

\* What wc.put holds after data was stored under key at time t.
PutAfter(key, data, t) ==
  [k \in (DOMAIN wc.put) \cup {key} |->
     IF k = key THEN [data |-> data, at |-> t] ELSE wc.put[k]]

\* Everything but the cache, the clock and the client.
notCache == <<engineVars, rq, net_log, busVars, det, chk, inv, ck, unitVars>>

\* Time passes.
Tick ==
  /\ now < MaxTime
  /\ now' = now + 1
  /\ UNCHANGED <<cache, wc, notCache>>

\* _set_cache(key, data), called on its own; wc.put keeps the last data put
\* under each key and when, and the reads start afresh.
SetCache ==
  /\ \E key \in CacheKeys, data \in ProductLists :
       /\ cache' = set_cache(cache, key, data, now)
       /\ wc' = [wc EXCEPT !.put = PutAfter(key, data, now), !.got = None]
  /\ UNCHANGED <<now, notCache>>

\* _get_from_cache(key), called on its own; wc.got keeps what it returned.
GetFromCache ==
  /\ \E key \in CacheKeys :
       LET r == get_from_cache(cache, key, now)
       IN  /\ cache' = r[2]
           /\ wc' = [wc EXCEPT !.got = Some([key |-> key, result |-> r[1], at |-> now])]
  /\ UNCHANGED <<now, notCache>>

\* clear_cache() (lines 111-114).
ClearCache ==
  /\ cache' = <<>>
  /\ wc' = [wc EXCEPT !.put = <<>>, !.got = None]
  /\ UNCHANGED <<now, notCache>>

InitCache ==
  /\ EngineIdle
  /\ rq = RqIdle
  /\ net_log = <<>>
  /\ BusIdle
  /\ det = DetIdle
  /\ chk = ChkIdle
  /\ inv = InvIdle
  /\ cache = <<>>
  /\ now = 0
  /\ \E ttl \in 0..MaxTtl : wc = [WcIdle EXCEPT !.cache_ttl = ttl]
  /\ ck = CkIdle
  /\ UnitIdle

NextCache ==
  \/ Tick
  \/ SetCache
  \/ GetFromCache
  \/ ClearCache

SpecCache == InitCache /\ [][NextCache]_vars

\* The params get_products hands to _make_request.
ToParams(filters) == IF filters = <<>> THEN None ELSE Some(filters[1])

CacheHit_Truthy(cached_data) == cached_data # None /\ cached_data[1] # <<>>

\* Line 220: cached_data is not None.
CacheHit(cached_data) == cached_data # None

\* get_products(use_cache, **filters), lines 216-223: the key, the cache
\* lookup when use_cache, the return on a hit, else the call of _make_request.
\* The call remembers what was last stored under its key (seen).
GetProductsCall ==
  /\ wc.call.state \in {"idle", "returned", "raised"}
  /\ \E use_cache \in BOOLEAN, filters \in ProductFilters :
       LET cache_key == get_cache_key("GetProducts", filters)
           looked == IF use_cache THEN get_from_cache(cache, cache_key, now)
                     ELSE <<None, cache>>
           call == [GpIdle EXCEPT
                      !.use_cache = use_cache, !.filters = filters,
                      !.cache_key = cache_key, !.began = now,
                      !.seen = IF cache_key \in DOMAIN wc.put
                               THEN Some(wc.put[cache_key]) ELSE None]
       IN  /\ cache' = looked[2]
           /\ IF use_cache /\ CacheHit(looked[1])
              THEN /\ wc' = [wc EXCEPT !.call = [call EXCEPT !.state = "returned",
                                                             !.result = looked[1],
                                                             !.ended = now]]
                   /\ UNCHANGED rq
              ELSE /\ wc' = [wc EXCEPT !.call = [call EXCEPT !.state = "requesting",
                                                             !.requests = 1]]
                   /\ rq' = RqStart(ToParams(filters))
  /\ UNCHANGED <<now, net_log, engineVars, busVars, det, chk, inv, ck, unitVars>>

\* One network attempt of the _make_request call get_products made.
ProductsAttempt ==
  /\ wc.call.state = "requesting"
  /\ rq.state = "running"
  /\ \E o \in NetOutcomes, p \in Payloads :
       rq' = RqAttempt(rq, o, IF o = "success" THEN p ELSE None)
  /\ UNCHANGED <<cacheVars, net_log, engineVars, busVars, det, chk, inv, ck, unitVars>>

GetProductsReturn_AlwaysStores ==
  /\ wc.call.state = "requesting"
  /\ rq.state \in {"returned", "raised"}
  /\ IF rq.state = "raised"
     THEN /\ wc' = [wc EXCEPT !.call = [@ EXCEPT !.state = "raised", !.ended = now]]
          /\ UNCHANGED cache
     ELSE LET products == normalize_products_response(PayloadResponse(rq.payload[1], 1))
              stored == TRUE
          IN  /\ cache' = IF stored
                          THEN set_cache(cache, wc.call.cache_key, products, now)
                          ELSE cache
              /\ wc' = [wc EXCEPT
                          !.call = [@ EXCEPT !.state = "returned",
                                             !.result = Some(products), !.ended = now],
                          !.put = IF stored
                                  THEN PutAfter(wc.call.cache_key, products, now) ELSE @]
  /\ UNCHANGED <<now, rq, net_log, engineVars, busVars, det, chk, inv, ck, unitVars>>

GetProductsReturn_CachesError ==
  /\ wc.call.state = "requesting"
  /\ rq.state \in {"returned", "raised"}
  /\ IF rq.state = "raised"
     THEN /\ wc' = [wc EXCEPT !.call = [@ EXCEPT !.state = "raised", !.ended = now]]
          /\ cache' = IF wc.call.use_cache
                      THEN set_cache(cache, wc.call.cache_key, <<>>, now)
                      ELSE cache
     ELSE LET products == normalize_products_response(PayloadResponse(rq.payload[1], 1))
              stored == wc.call.use_cache
          IN  /\ cache' = IF stored
                          THEN set_cache(cache, wc.call.cache_key, products, now)
                          ELSE cache
              /\ wc' = [wc EXCEPT
                          !.call = [@ EXCEPT !.state = "returned",
                                             !.result = Some(products), !.ended = now],
                          !.put = IF stored
                                  THEN PutAfter(wc.call.cache_key, products, now) ELSE @]
  /\ UNCHANGED <<now, rq, net_log, engineVars, busVars, det, chk, inv, ck, unitVars>>

\* get_products, lines 223-229: _make_request raised, or it returned and the
\* normalized list is stored when use_cache and returned.
GetProductsReturn ==
  /\ wc.call.state = "requesting"
  /\ rq.state \in {"returned", "raised"}
  /\ IF rq.state = "raised"
     THEN /\ wc' = [wc EXCEPT !.call = [@ EXCEPT !.state = "raised", !.ended = now]]
          /\ UNCHANGED cache
     ELSE LET products == normalize_products_response(PayloadResponse(rq.payload[1], 1))
              stored == wc.call.use_cache
          IN  /\ cache' = IF stored
                          THEN set_cache(cache, wc.call.cache_key, products, now)
                          ELSE cache
              /\ wc' = [wc EXCEPT
                          !.call = [@ EXCEPT !.state = "returned",
                                             !.result = Some(products), !.ended = now],
                          !.put = IF stored
                                  THEN PutAfter(wc.call.cache_key, products, now) ELSE @]
  /\ UNCHANGED <<now, rq, net_log, engineVars, busVars, det, chk, inv, ck, unitVars>>

NextProducts ==
  \/ Tick
  \/ GetProductsCall
  \/ ProductsAttempt
  \/ GetProductsReturn

SpecProducts == InitCache /\ [][NextProducts]_vars

\* ------------------------------------- one attempt of _make_request in detail
\* Lines 153-197 applied to what the upstream can answer. A message is a
\* sequence of words joined by single blanks, so that str.lower() and the
\* substring tests of line 168 are computed word by word.

Words == {"Authentication", "Invalid", "identifier", "Identifier", "product"}

\* str.lower() of one word.
lower(word) ==
  CASE word = "Authentication" -> "authentication"
    [] word = "Invalid" -> "invalid"
    [] word = "Identifier" -> "identifier"
    [] OTHER -> word

LowerMessage(message) == [i \in DOMAIN message |-> lower(message[i])]

\* phrase in message, for a phrase of whole words.
Contains(message, phrase) ==
  \E i \in 1..(Len(message) - Len(phrase) + 1) :
     SubSeq(message, i, i + Len(phrase) - 1) = phrase

Messages == UNION {[1..n -> Words] : n \in 0..MaxWords}

\* The 'message' member of a JSON object: absent, null, or a string.
MessageFields == {<<"absent">>, <<"null">>} \cup {<<"str", m>> : m \in Messages}

\* What response.json() meets: a body that is no JSON, a JSON array, or a JSON
\* object with or without 'result' and 'message'.
AttBodies ==
  {[shape |-> "not_json", result |-> None, message |-> <<"absent">>],
   [shape |-> "array", result |-> None, message |-> <<"absent">>]}
  \cup {[shape |-> "object", result |-> r, message |-> <<"absent">>] :
          r \in {None, Some("success")}}
  \cup {[shape |-> "object", result |-> Some("error"), message |-> f] : f \in MessageFields}

AttStatuses == {200, 304, 403, 500}

\* What self._session.post (line 157) does: it raises one of requests'
\* exceptions or returns a response. ConnectTimeout derives from both
\* ConnectionError and Timeout; TooManyRedirects derives from RequestException
\* only.
AttRaised == {"Timeout", "ConnectTimeout", "ConnectionError", "TooManyRedirects"}

AttResponses ==
  {[transport |-> t, status |-> 0, body |-> [shape |-> "not_json", result |-> None,
                                             message |-> <<"absent">>]] : t \in AttRaised}
  \cup {[transport |-> "response", status |-> st, body |-> b] :
          st \in AttStatuses, b \in AttBodies}

\* Response.raise_for_status (line 162) raises HTTPError for 4xx and 5xx.
raise_for_status(status) == status >= 400 /\ status < 600

\* Lines 165-179 for a JSON object: .get('result'), .get('message', 'Unknown
\* error'), .lower() and the two substring tests. A null message has no
\* .lower(): AttributeError, which no except clause of lines 183-197 names.
classify_object(body) ==
  IF body.result # Some("error") THEN "ok"
  ELSE IF body.message = <<"null">> THEN "AttributeError"
  ELSE LET error_message == IF body.message = <<"absent">>
                            THEN <<"Unknown", "error">> ELSE body.message[2]
       IN  IF Contains(LowerMessage(error_message), <<"authentication">>)
              \/ Contains(LowerMessage(error_message), <<"invalid", "identifier">>)
           THEN "WhmcsAuthenticationError"
           ELSE "WhmcsAPIError"

\* One pass through the body of _make_request (lines 153-197): what it returns
\* ("ok") or the class of the exception that leaves it. The except clauses are
\* tried in order, Timeout before ConnectionError; an exception none of them
\* names leaves the function as it is.
make_request_attempt(r) ==
  CASE r.transport \in {"Timeout", "ConnectTimeout"} -> "WhmcsTimeoutError"
    [] r.transport = "ConnectionError" -> "WhmcsConnectionError"
    [] r.transport = "TooManyRedirects" -> "TooManyRedirects"
    [] OTHER ->
         IF raise_for_status(r.status) THEN "WhmcsAPIError"
         ELSE IF r.body.shape = "not_json" THEN "WhmcsAPIError"
         ELSE IF r.body.shape = "array" THEN "AttributeError"
         ELSE classify_object(r.body)

notAtt == <<engineVars, rq, net_log, busVars, det, chk, inv, cacheVars, ck,
            ctor, nrm, gp, msch, store, callVars>>

\* The upstream answers and the attempt is classified.
ClassifyResponse ==
  /\ att.response # None
  /\ att.kind = None
  /\ att' = [att EXCEPT !.kind = Some(make_request_attempt(att.response[1]))]
  /\ UNCHANGED notAtt

InitAttempt ==
  /\ EngineIdle
  /\ rq = RqIdle
  /\ net_log = <<>>
  /\ BusIdle
  /\ det = DetIdle
  /\ chk = ChkIdle
  /\ inv = InvIdle
  /\ cache = <<>>
  /\ now = 0
  /\ wc = WcIdle
  /\ ck = CkIdle
  /\ \E r \in AttResponses : att = [AttIdle EXCEPT !.response = Some(r)]
  /\ ctor = CtorIdle
  /\ nrm = NrmIdle
  /\ gp = GpIdle2
  /\ msch = MschIdle
  /\ store = StoreIdle
  /\ CallIdle

NextAttempt == ClassifyResponse

SpecAttempt == InitAttempt /\ [][NextAttempt]_vars

\* ------------------------------ a cycle with a concurrent configuration writer
\* The interval job runs run_monitoring_cycle on a worker thread while the
\* application's own thread can serve MonitorConfigService.update_monitor.

\* update_monitor(monitor_config_id, is_active = value): lines 149-158 load
\* the row in the writer's own session, set the attribute and commit. The
\* cycle's UPDATE of line 108 writes last_checked_at only, so the two writers
\* never overwrite each other's column.
UpdateMonitorActive ==
  /\ pc \in {"started", "loop", "fetch", "complete"}
  /\ \E m \in MonitorIds, value \in BOOLEAN :
       /\ monitors[m].is_active # value
       /\ monitors' = [monitors EXCEPT ![m].is_active = value]
  /\ UNCHANGED <<records, cycle_no, pc, active_monitors, idx, results, log, checked,
                 outcomes, rq, net_log, busVars, det, auxVars>>

\* One cycle, the last the bound allows, over any subset of active monitors.
InitConcurrent ==
  /\ \E act \in [MonitorIds -> BOOLEAN] :
       monitors = [m \in MonitorIds |-> [ConfigOf(m) EXCEPT !.is_active = act[m]]]
  /\ records = [m \in MonitorIds |-> <<>>]
  /\ cycle_no = MaxCycles - 1
  /\ pc = "idle"
  /\ active_monitors = <<>>
  /\ idx = 0
  /\ results = EmptyResults
  /\ log = <<>>
  /\ checked = <<>>
  /\ outcomes = <<>>
  /\ rq = RqIdle
  /\ net_log = <<>>
  /\ BusIdle
  /\ det = DetIdle
  /\ AuxIdle

NextConcurrent ==
  \/ Next
  \/ UpdateMonitorActive

SpecConcurrent == InitConcurrent /\ [][NextConcurrent]_vars

\* ------------------------------------------------- constructing the client
\* WhmcsClient.__init__ (lines 49-84). A string argument is None or a sequence
\* of characters, of which only '/' matters (rstrip, line 77).

CtorUrls ==
  {<<"None">>, <<"str", <<>>>>, <<"str", <<"/">>>>, <<"str", <<"u">>>>,
   <<"str", <<"u", "/">>>>, <<"str", <<"u", "/", "/">>>>}

CtorSecrets == {<<"None">>, <<"str", <<>>>>, <<"str", <<"s">>>>}

CtorArgs ==
  [api_url : CtorUrls, api_identifier : CtorSecrets, api_secret : CtorSecrets,
   cache_ttl : 0..MaxTtl]

\* not value, for None or a str.
falsy(value) == value[1] = "None" \/ value[2] = <<>>

\* str.rstrip('/').
RECURSIVE rstrip(_)
rstrip(chars) ==
  IF chars # <<>> /\ chars[Len(chars)] = "/"
  THEN rstrip(SubSeq(chars, 1, Len(chars) - 1))
  ELSE chars

validation_error_SecretUnchecked(args) ==
  IF falsy(args.api_url) THEN Some("API URL is required")
  ELSE IF falsy(args.api_identifier) THEN Some("API identifier is required")
  ELSE None

\* Lines 70-75: the message of the WhmcsValidationError raised, or None.
validation_error(args) ==
  IF falsy(args.api_url) THEN Some("API URL is required")
  ELSE IF falsy(args.api_identifier) THEN Some("API identifier is required")
  ELSE IF falsy(args.api_secret) THEN Some("API secret is required")
  ELSE None

notCtor == <<engineVars, rq, net_log, busVars, det, chk, inv, cacheVars, ck,
             att, nrm, gp, msch, store, callVars>>

\* WhmcsClient(api_url, api_identifier, api_secret, cache_ttl = ...): the
\* validation raises before any attribute is set; otherwise the attributes,
\* the empty cache (line 83) and the session (line 84) are created. Nothing
\* is sent.
ConstructClient ==
  /\ ~ctor.called
  /\ ctor.args # None
  /\ LET args == ctor.args[1]
         error == validation_error(args)
     IN  IF error # None
         THEN ctor' = [ctor EXCEPT !.called = TRUE, !.raised = error]
         ELSE ctor' = [ctor EXCEPT !.called = TRUE,
                                   !.api_url = Some(rstrip(args.api_url[2])),
                                   !.cache = Some(<<>>),
                                   !.session = TRUE]
  /\ UNCHANGED notCtor

InitClient ==
  /\ EngineIdle
  /\ rq = RqIdle
  /\ net_log = <<>>
  /\ BusIdle
  /\ det = DetIdle
  /\ chk = ChkIdle
  /\ inv = InvIdle
  /\ cache = <<>>
  /\ now = 0
  /\ wc = WcIdle
  /\ ck = CkIdle
  /\ att = AttIdle
  /\ \E args \in CtorArgs : ctor = [CtorIdle EXCEPT !.args = Some(args)]
  /\ nrm = NrmIdle
  /\ gp = GpIdle2
  /\ msch = MschIdle
  /\ store = StoreIdle
  /\ CallIdle

NextClient == ConstructClient

SpecClient == InitClient /\ [][NextClient]_vars

\* ---------------------------------- _normalize_products_response on its own

notNrm == <<engineVars, rq, net_log, busVars, det, chk, inv, cacheVars, ck,
            att, ctor, gp, msch, store, callVars>>

\* _normalize_products_response(response) returns the list or raises the
\* TypeError of line 308.
NormalizeResponse ==
  /\ nrm.response # None
  /\ nrm.result = None
  /\ LET products_data == nrm.response[1]
     IN  nrm' = [nrm EXCEPT !.result =
                   Some(IF normalize_raises(products_data)
                        THEN [raised |-> Some("TypeError"), products |-> None]
                        ELSE [raised |-> None,
                              products |-> Some(normalize_products_response(products_data))])]
  /\ UNCHANGED notNrm

InitNormalize ==
  /\ EngineIdle
  /\ rq = RqIdle
  /\ net_log = <<>>
  /\ BusIdle
  /\ det = DetIdle
  /\ chk = ChkIdle
  /\ inv = InvIdle
  /\ cache = <<>>
  /\ now = 0
  /\ wc = WcIdle
  /\ ck = CkIdle
  /\ att = AttIdle
  /\ ctor = CtorIdle
  /\ \E products_data \in NrmShapes : nrm = [NrmIdle EXCEPT !.response = Some(products_data)]
  /\ gp = GpIdle2
  /\ msch = MschIdle
  /\ store = StoreIdle
  /\ CallIdle

NextNormalize == NormalizeResponse

SpecNormalize == InitNormalize /\ [][NextNormalize]_vars

\* ------------------------------------------ MonitorScheduler.start / shutdown
\* msch.schedulers counts the AsyncIOScheduler objects created so far, the
\* last of which is self.scheduler; msch.jobs are the ids of its jobs;
\* msch.calls are the calls made, in order.

\* scheduler.add_job(..., id = job_id, replace_existing = True).
add_job(jobs, job_id) ==
  IF \E i \in 1..Len(jobs) : jobs[i] = job_id THEN jobs ELSE Append(jobs, job_id)

start_Unguarded(m) ==
  [m EXCEPT !.schedulers = @ + 1,
            !.jobs = add_job(<<>>, "stock_monitoring_job"),
            !.is_running = TRUE]

\* MonitorScheduler.start (lines 35-60): returns at once when running, else
\* creates a scheduler, adds the job to it, starts it and sets the flag.
start(m) ==
  IF m.is_running THEN m
  ELSE [m EXCEPT !.schedulers = @ + 1,
                 !.jobs = add_job(<<>>, "stock_monitoring_job"),
                 !.is_running = TRUE]

\* MonitorScheduler.shutdown (lines 62-72): returns at once when not running or
\* when no scheduler was ever created, else shuts the scheduler down, whose
\* memory job store drops its jobs, and clears the flag.
shutdown(m) ==
  IF ~m.is_running \/ m.schedulers = 0 THEN m
  ELSE [m EXCEPT !.jobs = <<>>, !.is_running = FALSE]

notMsch == <<engineVars, rq, net_log, busVars, det, chk, inv, cacheVars, ck,
             att, ctor, nrm, gp, store, callVars>>

StartCall ==
  /\ Len(msch.calls) < MaxCalls
  /\ msch' = [start(msch) EXCEPT !.calls = Append(@, "start")]
  /\ UNCHANGED notMsch

ShutdownCall ==
  /\ Len(msch.calls) < MaxCalls
  /\ msch' = [shutdown(msch) EXCEPT !.calls = Append(@, "shutdown")]
  /\ UNCHANGED notMsch

InitMsch ==
  /\ EngineIdle
  /\ rq = RqIdle
  /\ net_log = <<>>
  /\ BusIdle
  /\ det = DetIdle
  /\ AuxIdle

NextMsch ==
  \/ StartCall
  \/ ShutdownCall

SpecMsch == InitMsch /\ [][NextMsch]_vars

\* ------------------------------------------------- MonitorConfigService
\* store.websites are the ids of the rows of websites, store.monitors the rows
\* of monitor_configs as (id, website_id, product_id), store.next_id the next
\* primary key, store.last the last call of the service and how it ended.
\* The table has indexes on website_id and product_id and no unique
\* constraint (models.py lines 27-50).

SiteIds == 1..NumSites

StoreProducts == {1, 2}

RowIds == 1..MaxRows

notStore == <<engineVars, rq, net_log, busVars, det, chk, inv, cacheVars, ck,
              att, ctor, nrm, gp, msch, callVars>>

Called(op, raised, rows) ==
  Some([op |-> op, raised |-> raised, changed |-> rows # store.monitors])

\* WebsiteService.create_website (lines 21-43) with a name not yet taken.
CreateWebsite ==
  /\ Cardinality(store.websites) < NumSites
  /\ store' = [store EXCEPT !.websites = @ \cup {Cardinality(@) + 1},
                            !.last = Called("create_website", None, store.monitors)]
  /\ UNCHANGED notStore

\* repository.get_by_website_and_product: some row of the pair, or none.
get_by_website_and_product(rows, website_id, product_id) ==
  {r \in rows : r.website_id = website_id /\ r.product_id = product_id}

\* MonitorConfigService.create_monitor (lines 96-132).
CreateMonitor ==
  /\ store.next_id <= MaxRows
  /\ \E website_id \in SiteIds, product_id \in StoreProducts :
       IF website_id \notin store.websites
       THEN store' = [store EXCEPT !.last =
                        Called("create_monitor", Some("does not exist"), store.monitors)]
       ELSE IF get_by_website_and_product(store.monitors, website_id, product_id) # {}
       THEN store' = [store EXCEPT !.last =
                        Called("create_monitor", Some("already exists"), store.monitors)]
       ELSE LET rows == store.monitors \cup
                          {[id |-> store.next_id, website_id |-> website_id,
                            product_id |-> product_id]}
            IN  store' = [store EXCEPT !.monitors = rows,
                                       !.next_id = @ + 1,
                                       !.last = Called("create_monitor", None, rows)]
  /\ UNCHANGED notStore

\* MonitorConfigService.update_monitor(monitor_config_id, **kwargs) (lines
\* 144-158): every keyword whose value is not None and that names an attribute
\* is set on the row, then the row is committed; no check is made. The
\* keywords here are website_id (of an existing website) and product_id.
UpdateMonitor ==
  /\ \E monitor_config_id \in RowIds,
        website_id \in {None} \cup {Some(w) : w \in store.websites},
        product_id \in {None} \cup {Some(q) : q \in StoreProducts} :
       LET found == {r \in store.monitors : r.id = monitor_config_id}
           rows == {IF r.id # monitor_config_id THEN r
                    ELSE [id |-> r.id,
                          website_id |-> IF website_id # None THEN website_id[1]
                                         ELSE r.website_id,
                          product_id |-> IF product_id # None THEN product_id[1]
                                         ELSE r.product_id] : r \in store.monitors}
       IN  IF found = {}
           THEN store' = [store EXCEPT !.last =
                            Called("update_monitor", None, store.monitors)]
           ELSE store' = [store EXCEPT !.monitors = rows,
                                       !.last = Called("update_monitor", None, rows)]
  /\ UNCHANGED notStore

\* MonitorConfigService.delete_monitor (lines 160-162) -> repository.delete.
DeleteMonitor ==
  /\ \E monitor_config_id \in RowIds :
       LET rows == {r \in store.monitors : r.id # monitor_config_id}
       IN  store' = [store EXCEPT !.monitors = rows,
                                  !.last = Called("delete_monitor", None, rows)]
  /\ UNCHANGED notStore

InitStore ==
  /\ EngineIdle
  /\ rq = RqIdle
  /\ net_log = <<>>
  /\ BusIdle
  /\ det = DetIdle
  /\ AuxIdle

NextStore ==
  \/ CreateWebsite
  \/ CreateMonitor
  \/ UpdateMonitor
  \/ DeleteMonitor

SpecStore == InitStore /\ [][NextStore]_vars

\* ------------------------------------------------- a cycle that keeps running
\* The thread that runs run_monitoring_cycle keeps executing it: once a cycle
\* has started, each of its steps is taken when it is the next one. Every
\* network attempt ends (it returns, fails or times out), and the sleep
\* between two attempts is at most WAIT_MAX seconds. Whether a cycle is
\* started at all is left open.
SpecLive ==
  /\ InitConcurrent
  /\ [][Next]_vars
  /\ WF_vars(LoadMonitors)
  /\ WF_vars(BeginCheck)
  /\ WF_vars(Attempt)
  /\ WF_vars(FinishCheck)
  /\ WF_vars(Complete)

\* ------------------------------------- get_product_inventory beside a cycle
\* One call of get_product_inventory on any answer of the upstream, or one
\* cycle in which the engine makes that call for each monitor.

notGp == <<engineVars, rq, net_log, busVars, det, chk, inv, cacheVars, ck,
           att, ctor, nrm, msch, store, callVars>>

\* get_product_inventory(product_id) -> get_product -> get_products ->
\* _normalize_products_response on the answer (lines 269-280, 248-249, 223-224).
\* A TypeError of the normalization leaves all three.
GetProductInventoryCall ==
  /\ pc = "idle"
  /\ gp = GpIdle2
  /\ \E product_id \in MonitorIds, products_data \in NrmShapes :
       IF normalize_raises(products_data)
       THEN gp' = [GpIdle2 EXCEPT !.product_id = Some(product_id),
                                  !.raised = Some("TypeError")]
       ELSE LET products == normalize_products_response(products_data)
                returned == get_product_inventory(product_id, products)
            IN  gp' = [product_id |-> Some(product_id),
                       lookup |-> Some(products),
                       product |-> Some(get_product(products)),
                       inventory |-> returned.inventory,
                       raised |-> returned.raised]
  /\ UNCHANGED notGp

NextLookup ==
  \/ gp = GpIdle2 /\ Next
  \/ GetProductInventoryCall

SpecLookup == InitConcurrent /\ [][NextLookup]_vars

\* ------------------------------------- a cycle whose subscribers can raise
\* Every event_bus.emit of run_monitoring_cycle, _emit_events and the except
\* block goes through EventBus.emit, which calls the subscribers one by one.

\* The loop of emit (events.py lines 71-75) over the handler list, handler i
\* raising an Exception when raises[i].
RECURSIVE EmitLoop(_, _)
EmitLoop(e, raises) ==
  IF e.state # "dispatching" \/ Len(e.invoked) = Len(e.all_handlers) THEN e
  ELSE LET i == Len(e.invoked) + 1
       IN  EmitLoop(AfterHandler(e, e.all_handlers[i], raises[i]), raises)

\* emit(event) from its first line to its return (lines 65-75).
emit(hs, gs, event_type, raises) ==
  LET begun == [EmIdle EXCEPT
                  !.state = "dispatching",
                  !.event_type = event_type,
                  !.reg_specific = HandlersFor(hs, event_type),
                  !.reg_global = gs,
                  !.all_handlers = AllHandlers(hs, gs, event_type)]
      looped == EmitLoop(begun, raises)
  IN  IF looped.state = "dispatching" THEN [looped EXCEPT !.state = "returned"] ELSE looped

\* The event types the application's handler 2 subscribes to: a threshold
\* event, two stock events and a cycle event. Handler 1 subscribes to all.
SubscribedTypes ==
  {"threshold_breach_low", "stock_decreased", "stock_unchanged", "monitor_started"}

\* The events of the running cycle's log the bus has delivered so far.
NumDelivered == IF dl.cycle = cycle_no THEN dl.delivered ELSE 0

\* Every emit of the cycle so far has returned to the engine.
Delivered == NumDelivered = Len(log)

\* The emit of the event the engine has just built: the subscribers are
\* called in order, each of the application's handlers returning or raising.
DeliverEvent ==
  /\ ~Delivered
  /\ LET event == log[NumDelivered + 1]
         all_handlers == AllHandlers(handlers, global_handlers, event.event_type)
     IN  \E raises \in [1..Len(all_handlers) -> BOOLEAN] :
           /\ \A i \in 1..Len(all_handlers) : all_handlers[i] = LogHandler => ~raises[i]
           /\ dl' = [cycle |-> cycle_no,
                     delivered |-> NumDelivered + 1,
                     last |-> Some([event_type |-> event.event_type,
                                    monitor_config_id |-> event.monitor_config_id,
                                    em |-> emit(handlers, global_handlers,
                                                event.event_type, raises)]),
                     hit |-> (IF dl.cycle = cycle_no THEN dl.hit ELSE {})
                               \cup (IF \E i \in 1..Len(all_handlers) : raises[i]
                                     THEN {event.monitor_config_id} ELSE {})]
  /\ UNCHANGED <<engineVars, rq, net_log, busVars, det, chk, inv, cacheVars, ck,
                 att, ctor, nrm, gp, msch, store, tc>>

\* The first observation of a monitor, as an earlier cycle committed it.
SeedRecords(m, previous) ==
  IF previous = None THEN <<>>
  ELSE <<NewRecord(ConfigOf(m), m, previous[1], None)>>

\* One cycle over monitors that are all active, each with no record yet or
\* with the record of an earlier observation; log_event_handler and handler 1
\* subscribed to every event, handler 2 to the SubscribedTypes.
InitDeliver ==
  /\ \E previous \in [MonitorIds -> Payloads] :
       /\ monitors = [m \in MonitorIds |->
                        [ConfigOf(m) EXCEPT !.last_checked_at =
                           IF previous[m] = None THEN 0 ELSE MaxCycles - 1]]
       /\ records = [m \in MonitorIds |-> SeedRecords(m, previous[m])]
  /\ cycle_no = MaxCycles - 1
  /\ pc = "idle"
  /\ active_monitors = <<>>
  /\ idx = 0
  /\ results = EmptyResults
  /\ log = <<>>
  /\ checked = <<>>
  /\ outcomes = <<>>
  /\ rq = RqIdle
  /\ net_log = <<>>
  /\ handlers = [t \in SubscribedTypes |-> <<2>>]
  /\ global_handlers = <<LogHandler, 1>>
  /\ em = EmIdle
  /\ det = DetIdle
  /\ AuxIdle

\* The engine goes on once the emits of its last step have returned.
NextDeliver ==
  \/ Delivered /\ Next
  \/ DeliverEvent

SpecDeliver == InitDeliver /\ [][NextDeliver]_vars

\* ------------------------------------------------- test_connection
\* WhmcsClient.test_connection (lines 354-376) on a client whose cache holds
\* what earlier get_products calls left in it.

notTc == <<engineVars, busVars, det, chk, inv, cacheVars, ck,
           att, ctor, nrm, gp, msch, store, dl>>

\* Line 368: test_connection calls _make_request('GetProducts', {'limitnum': 1}).
TestConnectionCall ==
  /\ tc.state \in {"idle", "returned", "raised"}
  /\ tc' = [TcIdle EXCEPT !.state = "requesting", !.cache_before = Some(cache)]
  /\ rq' = RqStart(Some([key |-> "limitnum", value |-> 1]))
  /\ net_log' = <<>>
  /\ UNCHANGED notTc

\* One network attempt of the call's request.
TestConnectionAttempt ==
  /\ tc.state = "requesting"
  /\ rq.state = "running"
  /\ \E o \in NetOutcomes, p \in Payloads :
       LET body == IF o = "success" THEN p ELSE None
       IN  /\ rq' = RqAttempt(rq, o, body)
           /\ net_log' = Append(net_log, [outcome |-> o, payload |-> body])
  /\ UNCHANGED <<tc, notTc>>

\* Lines 369-376: the request returned and test_connection returns True, or
\* the request raised: the two except clauses re-raise what they catch, and
\* anything else passes through them.
TestConnectionReturn ==
  /\ tc.state = "requesting"
  /\ rq.state \in {"returned", "raised"}
  /\ tc' = IF rq.state = "returned"
           THEN [tc EXCEPT !.state = "returned", !.result = Some(TRUE)]
           ELSE [tc EXCEPT !.state = "raised", !.raised = Some(rq.error)]
  /\ UNCHANGED <<rq, net_log, notTc>>

\* A client whose cache is empty or holds one product list stored at time 0.
InitTest ==
  /\ EngineIdle
  /\ rq = RqIdle
  /\ net_log = <<>>
  /\ BusIdle
  /\ det = DetIdle
  /\ chk = ChkIdle
  /\ inv = InvIdle
  /\ now = 0
  /\ wc = WcIdle
  /\ \/ cache = <<>>
     \/ \E key \in CacheKeys, data \in ProductLists :
          cache = set_cache(<<>>, key, data, 0)
  /\ ck = CkIdle
  /\ UnitIdle

NextTest ==
  \/ TestConnectionCall
  \/ TestConnectionAttempt
  \/ TestConnectionReturn

SpecTest == InitTest /\ [][NextTest]_vars

\* --------------------------------- handlers that change the registrations
\* A handler is called with the module-level event_bus in reach and can call
\* subscribe, subscribe_all or clear_handlers on it before it returns.

\* What handler h does to the bus while it runs: nothing, or it clears the
\* registrations, or it subscribes itself once more.
BusCalls(h) ==
  {<<"none">>, <<"clear_handlers">>, <<"subscribe_all", h>>}
    \cup {<<"subscribe", kind, h>> : kind \in BusKinds}

\* self._handlers after the call (lines 56-58, 78).
HandlersAfter(hs, call) ==
  CASE call[1] = "subscribe" ->
         IF call[2] \in DOMAIN hs
         THEN [hs EXCEPT ![call[2]] = Append(@, call[3])]
         ELSE hs @@ (call[2] :> <<call[3]>>)
    [] call[1] = "clear_handlers" -> <<>>
    [] OTHER -> hs

\* self._global_handlers after the call (lines 62, 79).
GlobalAfter(gs, call) ==
  CASE call[1] = "subscribe_all" -> Append(gs, call[2])
    [] call[1] = "clear_handlers" -> <<>>
    [] OTHER -> gs

IterList_Live(e, hs, gs) == AllHandlers(hs, gs, e.event_type)

\* The list the for loop of line 71 iterates: the list object line 69 built.
\* specific_handlers + self._global_handlers makes a new list, which shares
\* nothing with the two lists the registrations are kept in.
IterList(e, hs, gs) == e.all_handlers

\* Lines 71-75 for the next handler of the list: it runs, makes a call on the
\* bus or none, and returns.
HandlerCall ==
  /\ em.state = "dispatching"
  /\ Len(em.invoked) < Len(IterList(em, handlers, global_handlers))
  /\ LET h == IterList(em, handlers, global_handlers)[Len(em.invoked) + 1]
     IN  \E call \in BusCalls(h) :
           /\ h = LogHandler => call = <<"none">>
           /\ call[1] \in {"subscribe", "subscribe_all"} => NumRegistrations < MaxRegs + 1
           /\ handlers' = HandlersAfter(handlers, call)
           /\ global_handlers' = GlobalAfter(global_handlers, call)
           /\ em' = AfterHandler(em, h, FALSE)
  /\ UNCHANGED <<engineVars, rq, net_log, det, auxVars>>

\* The loop has reached the end of its list and emit returns.
LoopEnd ==
  /\ em.state = "dispatching"
  /\ Len(em.invoked) >= Len(IterList(em, handlers, global_handlers))
  /\ em' = [em EXCEPT !.state = "returned"]
  /\ UNCHANGED <<handlers, global_handlers, engineVars, rq, net_log, det, auxVars>>

\* The bus after the application has subscribed handler 1 to stock_increased
\* and handler 2 to every event.
InitReentrant ==
  /\ EngineIdle
  /\ rq = RqIdle
  /\ net_log = <<>>
  /\ handlers = ("stock_increased" :> <<1>>)
  /\ global_handlers = <<LogHandler, 2>>
  /\ em = EmIdle
  /\ det = DetIdle
  /\ AuxIdle

NextReentrant ==
  \/ EmitBegin
  \/ HandlerCall
  \/ LoopEnd

SpecReentrant == InitReentrant /\ [][NextReentrant]_vars

\* ------------------------------------------------- properties of the cycle

Last(seq) == seq[Len(seq)]

\* How many events of the kind the log holds for the monitor.
CountEvents(l, type, mid) ==
  Cardinality({i \in 1..Len(l) : l[i].event_type = type /\ l[i].monitor_config_id = mid})

CountType(l, type) == Cardinality({i \in 1..Len(l) : l[i].event_type = type})

\* The finished checks of the cycle that ended the given way.
Ended(how) == {i \in 1..Len(outcomes) : outcomes[i] = how}

C1_Order ==
  /\ Len(checked) <= Len(active_monitors)
  /\ checked = SubSeq(active_monitors, 1, Len(checked))
  /\ pc \in {"complete", "done"} => checked = active_monitors
  /\ pc = "raised" => checked = <<>>

C1_Step ==
  (pc = "fetch" /\ pc' # "fetch") =>
    LET mid == active_monitors[idx]
        failed == Last(outcomes') # "ok"
    IN  /\ Len(outcomes') = Len(outcomes) + 1
        /\ idx' = idx + 1
        /\ pc' = IF idx < Len(active_monitors) THEN "loop" ELSE "complete"
        /\ rq.state = "raised" => failed
        /\ failed =>
             /\ results'.errors = results.errors + 1
             /\ Len(log') > Len(log)
             /\ Last(log').event_type = "monitor_error"
             /\ Last(log').monitor_config_id = mid
             /\ CountEvents(log', "monitor_error", mid) = 1
             /\ records' = records
             /\ monitors' = monitors
        /\ ~failed => results'.errors = results.errors

\* C1: an exception in one monitor's check is handled inside the loop: the
\* step that ends a failed check counts one error, emits monitor_error for
\* that monitor as its last event, leaves the committed tables as they were
\* and moves on to the next monitor; the monitors are checked in the order
\* loaded, all of them by the time the cycle completes, and the cycle raises
\* only before the first check.
C1_ItemFailureIsolated == [][C1_Step]_vars /\ []C1_Order

\* A cycle that ended with a failed check followed by a successful one.
C1_Witness ==
  /\ pc = "done"
  /\ \E i \in 1..(Len(outcomes) - 1) : outcomes[i] # "ok" /\ outcomes[i + 1] = "ok"

\* C2: at the end of a cycle over k loaded monitors of which f failed in the
\* upstream fetch and the other k - f succeeded: monitors_checked = k,
\* errors = f, records_created = k - f, and the log holds exactly one
\* monitor_error for each failing monitor and none for any other.
C2_CycleCounts ==
  (pc = "done" /\ \A i \in 1..Len(outcomes) : outcomes[i] \in {"ok", "fetch_error"}) =>
    LET k == Len(active_monitors)
        f == Cardinality(Ended("fetch_error"))
    IN  /\ Len(outcomes) = k
        /\ results.monitors_checked = k
        /\ results.errors = f
        /\ results.records_created = k - f
        /\ \A i \in 1..k :
             CountEvents(log, "monitor_error", active_monitors[i])
               = IF outcomes[i] = "fetch_error" THEN 1 ELSE 0
        /\ CountType(log, "monitor_error") = f

\* A finished cycle over all the monitors in which some fetches failed and
\* some checks succeeded.
C2_Witness ==
  /\ pc = "done"
  /\ Len(active_monitors) = NumMonitors
  /\ Ended("fetch_error") # {}
  /\ Ended("ok") # {}
  /\ Ended("ok") \cup Ended("fetch_error") = 1..Len(outcomes)

\* C3: every cycle that returns a result has emitted exactly one
\* monitor_started, as its first event, and exactly one monitor_completed
\* carrying the results, as its last event.
C3_StartedAndCompleted ==
  pc = "done" =>
    /\ CountType(log, "monitor_started") = 1
    /\ log[1].event_type = "monitor_started"
    /\ CountType(log, "monitor_completed") = 1
    /\ Last(log).event_type = "monitor_completed"
    /\ Last(log).metadata = Some(results)

\* C21: run_monitoring_cycle raises only on a structural failure, that is
\* before the first check of the cycle has begun: whenever the call has raised,
\* no monitor of the cycle had been checked, and a check that ended, however
\* it ended, is followed by the next monitor or by the completed cycle.
C21_RaisesOnlyStructural ==
  /\ pc = "raised" => (checked = <<>> /\ outcomes = <<>>)
  /\ pc \in {"complete", "done"} => Len(outcomes) = Len(active_monitors)

\* The ids of the rows whose flag is set, in id order, ignoring the operator
\* under test.
RECURSIVE FlaggedFrom(_, _)
FlaggedFrom(ms, i) ==
  IF i > NumMonitors THEN <<>>
  ELSE (IF ms[i].is_active THEN <<i>> ELSE <<>>) \o FlaggedFrom(ms, i + 1)

InList(seq, m) == \E i \in 1..Len(seq) : seq[i] = m

C22_Step ==
  /\ (pc = "started" /\ pc' \in {"loop", "done"}) =>
       active_monitors' = FlaggedFrom(monitors, 1)
  /\ pc \in {"loop", "fetch", "complete"} => active_monitors' = active_monitors
  /\ (pc = "loop" /\ pc' = "fetch") =>
       /\ InList(active_monitors, Last(checked'))
       /\ rq'.params = Some([key |-> "pid", value |-> Last(checked')])
  /\ \A m \in MonitorIds :
       records'[m] # records[m] => (pc = "fetch" /\ InList(active_monitors, m))

C22_Loaded ==
  /\ checked = SubSeq(active_monitors, 1, Len(checked))
  /\ pc \in {"complete", "done"} => checked = active_monitors
  /\ \A m \in MonitorIds :
       (pc \in {"loop", "fetch", "complete", "done"} /\ ~InList(active_monitors, m)) =>
         (records[m] = <<>> /\ monitors[m].last_checked_at = 0)

\* C22: the monitors a cycle checks are the rows whose is_active was true at
\* the moment of the load, in id order; the loaded list does not change while
\* the cycle runs, whatever a concurrent writer does to the flags; every fetch
\* and every new record is for a monitor of the loaded list, so a monitor
\* deactivated after the load is still checked and one inactive at the load
\* is neither fetched nor recorded.
C22_CheckedAreLoaded == [][C22_Step]_vars /\ []C22_Loaded

\* A cycle committed a record for a monitor that a writer had deactivated
\* between the load and the monitor's fetch, and left alone a monitor that a
\* writer activated after the load.
C22_Witness ==
  /\ pc = "done"
  /\ \E m \in MonitorIds :
       /\ InList(active_monitors, m)
       /\ ~monitors[m].is_active
       /\ Len(records[m]) = 1
       /\ monitors[m].last_checked_at = cycle_no
  /\ \E m \in MonitorIds :
       /\ ~InList(active_monitors, m)
       /\ monitors[m].is_active
       /\ records[m] = <<>>

\* Some subscriber raised in the emit.
SubscriberRaised(e) == \E i \in 1..Len(e.raised) : e.raised[i]

\* The checks of the cycle that went through the whole except block.
Excepted == Ended("fetch_error") \cup Ended("flush_error") \cup Ended("commit_error")

\* C32: a subscriber that raises while the bus delivers a stock, threshold or
\* cycle event changes nothing for the cycle: the emit still calls every
\* handler of the event and returns to the engine; an item whose events met a
\* raising subscriber and whose writes the storage accepted has its record
\* and last_checked_at committed, has no monitor_error event, and is not
\* among the errors counted; and the cycle goes on to emit what follows, up
\* to monitor_completed.
C32_SubscriberCannotFailCycle ==
  /\ dl.last # None =>
       LET e == dl.last[1].em
       IN  /\ e.state = "returned"
           /\ e.invoked = e.all_handlers
           /\ Len(e.raised) = Len(e.all_handlers)
  /\ dl.cycle = cycle_no =>
       /\ \A i \in 1..Len(outcomes) :
            LET mid == active_monitors[i]
            IN  (mid \in dl.hit /\ outcomes[i] = "ok") =>
                  /\ records[mid] # <<>>
                  /\ monitors[mid].last_checked_at = cycle_no
                  /\ CountEvents(log, "monitor_error", mid) = 0
       /\ pc # "raised" => results.errors = Cardinality(Excepted)
       /\ (pc = "raised" /\ outcomes = <<>>) => dl.hit \subseteq {0}
       /\ (pc = "done" /\ Delivered) =>
            /\ Last(log).event_type = "monitor_completed"
            /\ dl.last[1].event_type = "monitor_completed"

\* A finished cycle in which subscribers raised on monitor_started and on
\* the threshold and the stock event of monitor 1, whose record was
\* committed; the last emit, of monitor_completed, met a raising subscriber
\* and still called the handler after it.
C32_Witness ==
  /\ pc = "done"
  /\ Delivered
  /\ dl.hit = {0, 1}
  /\ outcomes[1] = "ok"
  /\ CountEvents(log, "threshold_breach_low", 1) = 1
  /\ CountEvents(log, "stock_decreased", 1) = 1
  /\ Len(records[1]) = 2
  /\ results.errors = 0
  /\ dl.last[1].em.raised = <<FALSE, TRUE>>
  /\ dl.last[1].em.invoked = <<LogHandler, 1>>

\* The stock and threshold event types.
ItemEventTypes ==
  {"stock_increased", "stock_decreased", "stock_unchanged", "threshold_breach_low",
   "threshold_breach_high"}

\* How many stock and threshold events the log holds for the monitor.
ItemEvents(mid) ==
  Cardinality({i \in 1..Len(log) :
                 log[i].event_type \in ItemEventTypes /\ log[i].monitor_config_id = mid})

\* C36: when the log of a cycle holds a stock or threshold event for an item
\* whose check has ended, the item's record of the cycle is committed (its
\* check ended without a rollback, and its row carries the cycle's
\* last_checked_at) and the log holds no monitor_error for the item.
C36_EventsOnlyIfCommitted ==
  \A i \in 1..Len(outcomes) :
    LET mid == active_monitors[i]
    IN  ItemEvents(mid) > 0 =>
          /\ outcomes[i] = "ok"
          /\ records[mid] # <<>>
          /\ monitors[mid].last_checked_at = cycle_no
          /\ CountEvents(log, "monitor_error", mid) = 0

\* C37: when a cycle has returned its results, records_created + errors =
\* monitors_checked, and records_created is the number of checks of the cycle
\* whose record was committed, a check whose commit failed after
\* _check_monitor returned not being one of them.
C37_CountsAtCycleEnd ==
  pc = "done" =>
    /\ results.records_created + results.errors = results.monitors_checked
    /\ results.records_created = Cardinality(Ended("ok"))
    /\ results.records_created =
         Cardinality({m \in MonitorIds : monitors[m].last_checked_at = cycle_no})

\* The quantity is at or beyond one of the row's thresholds.
InBreach(row, quantity) ==
  \/ row.threshold_low # None /\ quantity <= row.threshold_low[1]
  \/ row.threshold_high # None /\ quantity >= row.threshold_high[1]

\* The threshold events the log holds for the monitor.
ThresholdEventsOf(mid) ==
  {i \in 1..Len(log) :
     /\ log[i].event_type \in {"threshold_breach_low", "threshold_breach_high"}
     /\ log[i].monitor_config_id = mid}

\* C38: every check of a cycle that succeeded for a monitor with
\* notify_on_threshold and observed a quantity in breach of the monitor's
\* thresholds has emitted exactly one threshold event carrying that quantity,
\* whether the observation was the monitor's first, or repeated the quantity
\* of the previous, already breached, observation, or changed it.
C38_LevelTriggered ==
  \A i \in 1..Len(outcomes) :
    LET mid == active_monitors[i]
    IN  (outcomes[i] = "ok" /\ monitors[mid].notify_on_threshold
           /\ InBreach(monitors[mid], Last(records[mid]).quantity)) =>
          /\ Cardinality(ThresholdEventsOf(mid)) = 1
          /\ \A e \in ThresholdEventsOf(mid) :
               log[e].quantity = Some(Last(records[mid]).quantity)

\* The second cycle observed for monitor 1 the quantity 0 its first cycle had
\* already recorded as a breach, and emitted the threshold event again, with
\* stock_unchanged.
C38_Witness ==
  /\ cycle_no = 2
  /\ Len(outcomes) >= 1
  /\ active_monitors[1] = 1
  /\ outcomes[1] = "ok"
  /\ Len(records[1]) = 2
  /\ records[1][1].threshold_breached
  /\ records[1][1].change_type = "initial"
  /\ records[1][2].delta = 0
  /\ records[1][2].threshold_breached
  /\ CountEvents(log, "threshold_breach_low", 1) = 1
  /\ CountEvents(log, "stock_unchanged", 1) = 1

\* The place of the monitor in the list the cycle loaded.
PlaceOf(mid) == CHOOSE i \in 1..Len(active_monitors) : active_monitors[i] = mid

\* The events of the log that are about one item.
OfItems == {i \in 1..Len(log) : log[i].monitor_config_id # 0}

\* C39: in the log of a cycle, a threshold event of an item comes before the
\* stock event of the same item; the events of the items come in the order
\* the items were loaded, those of one item together; monitor_started is the
\* first event and comes before every item event, monitor_completed comes
\* after every item event and nothing follows it, and a cycle that returned
\* after checking items has emitted it.
C39_EventOrder ==
  /\ \A i, j \in OfItems :
       (i < j /\ log[i].monitor_config_id = log[j].monitor_config_id) =>
         ~(/\ log[i].event_type \in {"stock_increased", "stock_decreased", "stock_unchanged"}
           /\ log[j].event_type \in {"threshold_breach_low", "threshold_breach_high"})
  /\ \A i, j \in OfItems :
       i < j => PlaceOf(log[i].monitor_config_id) <= PlaceOf(log[j].monitor_config_id)
  /\ \A i \in OfItems :
       /\ \E k \in 1..Len(checked) : checked[k] = log[i].monitor_config_id
       /\ i > 1
  /\ log # <<>> => log[1].event_type = "monitor_started"
  /\ \A i \in 1..Len(log) :
       /\ log[i].event_type = "monitor_started" => i = 1
       /\ log[i].event_type = "monitor_completed" => (i = Len(log) /\ pc = "done")
  /\ (pc = "done" /\ OfItems # {}) => Last(log).event_type = "monitor_completed"

\* A finished cycle over two monitors: the threshold event and then the
\* stock event of monitor 1, then the event of monitor 2, between
\* monitor_started and monitor_completed.
C39_Witness ==
  /\ pc = "done"
  /\ Len(log) = 5
  /\ log[1].event_type = "monitor_started"
  /\ log[2].event_type = "threshold_breach_low" /\ log[2].monitor_config_id = 1
  /\ log[3].event_type = "stock_decreased" /\ log[3].monitor_config_id = 1
  /\ log[4].event_type = "stock_unchanged" /\ log[4].monitor_config_id = 2
  /\ log[5].event_type = "monitor_completed"

\* ------------------------------------- properties of one attempt's outcome

AttKinds ==
  {"ok", "WhmcsAuthenticationError", "WhmcsAPIError", "WhmcsTimeoutError",
   "WhmcsConnectionError"}

\* The kind the classification rule gives an answer: the transport's failure
\* first, then the HTTP status, then the body.
AttExpected(r) ==
  CASE r.transport \in {"Timeout", "ConnectTimeout"} -> "WhmcsTimeoutError"
    [] r.transport \in {"ConnectionError", "TooManyRedirects"} -> "WhmcsConnectionError"
    [] OTHER ->
         IF r.status < 200 \/ r.status >= 300 THEN "WhmcsAPIError"
         ELSE IF r.body.shape = "not_json" THEN "WhmcsAPIError"
         ELSE IF r.body.shape = "object" /\ r.body.result = Some("error")
         THEN IF /\ r.body.message[1] = "str"
                 /\ \E i \in 1..Len(r.body.message[2]) :
                      \/ lower(r.body.message[2][i]) = "authentication"
                      \/ /\ i < Len(r.body.message[2])
                         /\ lower(r.body.message[2][i]) = "invalid"
                         /\ lower(r.body.message[2][i + 1]) = "identifier"
              THEN "WhmcsAuthenticationError"
              ELSE "WhmcsAPIError"
         ELSE "ok"

\* C23: every attempt ends in exactly one of the five kinds, and in the one
\* the rule names: Timeout and Connection for the transport's failures, API
\* for a non-2xx status, a body that is no JSON and any result = 'error' whose
\* message has no authentication phrase, Authentication for a result =
\* 'error' whose message has one in any case, success otherwise.
C23_AttemptClassified ==
  att.kind # None =>
    /\ att.kind[1] \in AttKinds
    /\ att.kind[1] = AttExpected(att.response[1])

\* ------------------------------------------ properties of the catalog lookups

C24_Lookup ==
  (gp.product_id # None /\ gp.lookup # None) =>
    LET products == gp.lookup[1]
    IN  /\ gp.product = Some(IF Len(products) = 0 THEN None ELSE Some(products[1]))
        /\ Len(products) = 0 =>
             (gp.raised = Some("WhmcsAPIError") /\ gp.inventory = None)
        /\ Len(products) > 0 =>
             /\ gp.raised = None
             /\ gp.inventory = Some([product_id |-> gp.product_id[1],
                                     quantity |-> products[1].quantity])

C24_Step ==
  (pc = "fetch" /\ pc' # "fetch" /\ rq.state = "returned" /\ rq.payload = Some(None)) =>
    LET mid == active_monitors[idx]
    IN  /\ pc' \in {"loop", "complete"}
        /\ idx' = idx + 1
        /\ results' = [results EXCEPT !.errors = @ + 1]
        /\ Len(log') = Len(log) + 1
        /\ SubSeq(log', 1, Len(log)) = log
        /\ Last(log').event_type = "monitor_error"
        /\ Last(log').monitor_config_id = mid
        /\ Last(log').error_type = Some("WhmcsAPIError")
        /\ records' = records
        /\ monitors' = monitors

\* C24: get_product gives the first product of the filtered lookup, or None
\* when the lookup is empty; get_product_inventory raises WhmcsAPIError on
\* None and otherwise returns the inventory of that first product. In a
\* cycle, the check of a monitor whose product the upstream does not have
\* ends with one more error, a monitor_error event for that monitor naming
\* WhmcsAPIError, no new record and no change to any row, and the loop goes
\* on.
C24_AbsentItem == [][C24_Step]_vars /\ []C24_Lookup

\* A finished cycle whose first monitor failed with WhmcsAPIError and has no
\* record, and whose second monitor was recorded.
C24_Witness ==
  /\ pc = "done"
  /\ Len(outcomes) = 2
  /\ outcomes[1] = "fetch_error"
  /\ outcomes[2] = "ok"
  /\ log[2].event_type = "monitor_error"
  /\ log[2].monitor_config_id = checked[1]
  /\ log[2].error_type = Some("WhmcsAPIError")
  /\ records[checked[1]] = <<>>
  /\ Len(records[checked[2]]) = 1
  /\ results.errors = 1
  /\ results.records_created = 1

\* -------------------------------------------- properties of the normalization

\* The positions of the product objects among the entries, in order.
ObjectPositions(entries) == {i \in 1..Len(entries) : entries[i].kind = "object"}

\* How many product objects the first i entries hold.
ObjectsUpTo(entries, i) == Cardinality({j \in 1..i : entries[j].kind = "object"})

\* The value of a numeric member, 0 when it is absent.
RawValue(raw) == IF raw = None THEN 0 ELSE raw[2]

StartedLast(calls) ==
  \E i \in 1..Len(calls) :
     calls[i] = "start" /\ \A j \in (i + 1)..Len(calls) : calls[j] = "start"

\* The starts that found the scheduler stopped: the first call or the one after
\* a shutdown.
EffectiveStarts(calls) ==
  {i \in 1..Len(calls) : calls[i] = "start" /\ (i = 1 \/ calls[i - 1] = "shutdown")}

\* C27: is_running() is true exactly when the last call was a start or a
\* start followed only by starts; while it is true the scheduler has the one
\* job stock_monitoring_job; a scheduler object was created by each start
\* that found it stopped and by no other call, so a start while running and
\* a shutdown while stopped return having changed nothing.
C27_TwoStates ==
  /\ msch.is_running <=> StartedLast(msch.calls)
  /\ msch.is_running => msch.jobs = <<"stock_monitoring_job">>
  /\ msch.schedulers = Cardinality(EffectiveStarts(msch.calls))

\* Two starts in a row, two shutdowns in a row, then a start: two scheduler
\* objects in all, running, one job.
C27_Witness ==
  /\ msch.calls = <<"start", "start", "shutdown", "shutdown", "start">>
  /\ msch.is_running
  /\ msch.schedulers = 2
  /\ Len(msch.jobs) = 1

\* --------------------------------------- properties of MonitorConfigService

\* C28: after any sequence of create_monitor, update_monitor and
\* delete_monitor no two rows of monitor_configs have the same website_id and
\* product_id, and a create_monitor that raised left the table as it was.
C28_UniquePair ==
  /\ \A a \in store.monitors, b \in store.monitors :
       (a.website_id = b.website_id /\ a.product_id = b.product_id) => a.id = b.id
  /\ (store.last # None /\ store.last[1].op = "create_monitor"
        /\ store.last[1].raised # None) => ~store.last[1].changed

\* ------------------------------------- properties of the client's constructor

CtorEmpty(value) == value = <<"None">> \/ value = <<"str", <<>>>>

\* C25: a construction with an empty api_url, api_identifier or api_secret
\* raises WhmcsValidationError, naming the first empty one, with no request
\* sent and neither cache nor session created; a construction with all three
\* non-empty raises nothing, sends nothing and leaves an empty cache and a
\* session.
C25_Construction ==
  ctor.called =>
    LET args == ctor.args[1]
    IN  /\ ctor.requests = 0
        /\ net_log = <<>>
        /\ (CtorEmpty(args.api_url) \/ CtorEmpty(args.api_identifier)
               \/ CtorEmpty(args.api_secret)) =>
             /\ ctor.raised # None
             /\ ctor.raised[1] =
                  (IF CtorEmpty(args.api_url) THEN "API URL is required"
                   ELSE IF CtorEmpty(args.api_identifier)
                   THEN "API identifier is required"
                   ELSE "API secret is required")
             /\ ctor.cache = None
             /\ ~ctor.session
             /\ ctor.api_url = None
        /\ (~CtorEmpty(args.api_url) /\ ~CtorEmpty(args.api_identifier)
               /\ ~CtorEmpty(args.api_secret)) =>
             /\ ctor.raised = None
             /\ ctor.cache = Some(<<>>)
             /\ ctor.session
             /\ ctor.api_url # None

\* A construction that failed on the secret alone, with nothing created.
C25_Witness ==
  /\ ctor.called
  /\ ctor.raised = Some("API secret is required")
  /\ ~CtorEmpty(ctor.args[1].api_url)
  /\ ~CtorEmpty(ctor.args[1].api_identifier)
  /\ ctor.cache = None
  /\ ~ctor.session

\* --------------------------------------- properties of _check_monitor

StockKinds == {"stock_increased", "stock_decreased", "stock_unchanged"}

ThresholdKinds == {"threshold_breach_low", "threshold_breach_high"}

\* The events of the sequence whose kind is in the set.
OfKinds(evs, kinds) == {i \in 1..Len(evs) : evs[i].event_type \in kinds}

\* current - previous when a previous observation exists, else 0.
ChkDelta ==
  IF chk.args[1].previous_quantity = None THEN 0
  ELSE chk.args[1].current_quantity - chk.args[1].previous_quantity[1]

\* C11: a completed check emits stock_increased iff delta > 0 and
\* notify_on_restock is enabled, stock_decreased iff delta < 0 and
\* notify_on_purchase is enabled, stock_unchanged iff delta = 0 and a prior
\* observation existed; it never emits two of them, and never stock_unchanged
\* on a first observation. The event carries the quantity, the previous
\* quantity and the delta.
C11_OneDeltaEvent ==
  chk.ret # None =>
    LET a == chk.args[1]
        evs == chk.events[1]
        has(kind) == OfKinds(evs, {kind}) # {}
    IN  /\ Cardinality(OfKinds(evs, StockKinds)) <= 1
        /\ has("stock_increased") <=> (ChkDelta > 0 /\ a.notify_on_restock)
        /\ has("stock_decreased") <=> (ChkDelta < 0 /\ a.notify_on_purchase)
        /\ has("stock_unchanged") <=> (ChkDelta = 0 /\ a.previous_quantity # None)
        /\ a.previous_quantity = None => OfKinds(evs, StockKinds) = {}
        /\ \A i \in OfKinds(evs, StockKinds) :
             /\ evs[i].quantity = Some(a.current_quantity)
             /\ evs[i].previous_quantity = a.previous_quantity
             /\ evs[i].delta = Some(ChkDelta)

\* A rise in stock reported by a monitor that notifies on restock but not on
\* purchase.
C11_Witness ==
  /\ chk.ret # None
  /\ ChkDelta > 0
  /\ chk.args[1].notify_on_restock
  /\ ~chk.args[1].notify_on_purchase
  /\ OfKinds(chk.events[1], {"stock_increased"}) # {}

ChkLowHit ==
  /\ chk.args[1].threshold_low # None
  /\ chk.args[1].current_quantity <= chk.args[1].threshold_low[1]

ChkHighHit ==
  /\ chk.args[1].threshold_high # None
  /\ chk.args[1].current_quantity >= chk.args[1].threshold_high[1]

\* C12: a completed check emits one threshold event iff the record is
\* breached and notify_on_threshold is enabled, and none otherwise; the event
\* is threshold_breach_low with the low threshold's value when the breach is
\* low, threshold_breach_high with the high threshold's value otherwise; the
\* delta event of the check is emitted or not regardless of it.
C12_ThresholdEvent ==
  chk.ret # None =>
    LET a == chk.args[1]
        evs == chk.events[1]
        th == OfKinds(evs, ThresholdKinds)
        breached == ChkLowHit \/ ChkHighHit
    IN  /\ chk.record[1].threshold_breached = breached
        /\ Cardinality(th) = IF breached /\ a.notify_on_threshold THEN 1 ELSE 0
        /\ \A i \in th :
             /\ evs[i].event_type =
                  IF ChkLowHit THEN "threshold_breach_low" ELSE "threshold_breach_high"
             /\ evs[i].threshold_value =
                  IF ChkLowHit THEN a.threshold_low ELSE a.threshold_high
             /\ evs[i].threshold_type = IF ChkLowHit THEN Some("low") ELSE Some("high")
        /\ (OfKinds(evs, {"stock_decreased"}) # {})
             <=> (ChkDelta < 0 /\ a.notify_on_purchase)
        /\ (OfKinds(evs, {"stock_increased"}) # {})
             <=> (ChkDelta > 0 /\ a.notify_on_restock)
        /\ Len(evs) = Cardinality(th) + Cardinality(OfKinds(evs, StockKinds))

\* A fall in stock to the low threshold: stock_decreased and
\* threshold_breach_low, carrying the low threshold, for the same check.
C12_Witness ==
  /\ chk.ret # None
  /\ ChkDelta < 0
  /\ ChkLowHit
  /\ \E i, j \in 1..Len(chk.events[1]) :
       /\ chk.events[1][i].event_type = "threshold_breach_low"
       /\ chk.events[1][i].threshold_value = chk.args[1].threshold_low
       /\ chk.events[1][j].event_type = "stock_decreased"

\* ---------------------------------- properties of the records of a cycle

RECURSIVE SumDeltas(_)
SumDeltas(rs) == IF Len(rs) = 0 THEN 0 ELSE rs[1].delta + SumDeltas(Tail(rs))

\* C13: for every monitor, the first committed record has delta 0 and every
\* later one has delta = its quantity minus the quantity of the record
\* committed just before it; so the deltas of a monitor sum to its latest
\* quantity minus its first.
C13_DeltaChain ==
  \A m \in MonitorIds :
    LET rs == records[m]
    IN  /\ \A i \in 1..Len(rs) :
             rs[i].delta = IF i = 1 THEN 0 ELSE rs[i].quantity - rs[i - 1].quantity
        /\ Len(rs) > 0 => SumDeltas(rs) = Last(rs).quantity - rs[1].quantity

\* A monitor whose second record changed the quantity, in a cycle in which
\* another check failed.
C13_Witness ==
  /\ pc = "done"
  /\ results.errors > 0
  /\ \E m \in MonitorIds : Len(records[m]) >= 2 /\ Last(records[m]).delta # 0

\* The step that ends the check of the current monitor.
CheckEnds == pc = "fetch" /\ pc' # "fetch"

\* The events the step appended to the log.
Appended == SubSeq(log', Len(log) + 1, Len(log'))

C14_Step ==
  (CheckEnds /\ records[active_monitors[idx]] = <<>> /\ Last(outcomes') # "fetch_error") =>
    LET mid == active_monitors[idx]
    IN  /\ results'.changes_detected = results.changes_detected
        /\ OfKinds(Appended, StockKinds) = {}
        /\ Last(outcomes') = "ok" =>
             /\ Len(records'[mid]) = 1
             /\ records'[mid][1].quantity = rq.payload[1][1]
             /\ records'[mid][1].delta = 0
             /\ records'[mid][1].change_type = "initial"

C14_FirstRecord ==
  \A m \in MonitorIds :
    Len(records[m]) > 0 =>
      records[m][1].delta = 0 /\ records[m][1].change_type = "initial"

\* C14: the check of a monitor that has no record yet, whatever quantity it
\* observes, does not add to changes_detected and emits no stock_increased,
\* stock_decreased or stock_unchanged; the record it commits has delta 0 and
\* change_type "initial".
C14_FirstObservation == [][C14_Step]_vars /\ []C14_FirstRecord

\* The first cycle has recorded a non-zero quantity for a monitor that
\* notifies on restock, and counted no change.
C14_Witness ==
  /\ pc = "done"
  /\ cycle_no = 1
  /\ results.changes_detected = 0
  /\ \E m \in MonitorIds :
       /\ monitors[m].notify_on_restock
       /\ Len(records[m]) = 1
       /\ records[m][1].quantity > 0
       /\ OfKinds(log, StockKinds) = {}

\* The delta and the breach of the observation the ending check made, from
\* the fetched quantity, the latest committed record and the thresholds.
ObservedDelta ==
  LET mid == active_monitors[idx]
  IN  IF records[mid] = <<>> THEN 0
      ELSE rq.payload[1][1] - Last(records[mid]).quantity

ObservedBreach ==
  LET monitor == monitors[active_monitors[idx]]
      q == rq.payload[1][1]
  IN  \/ (monitor.threshold_low # None /\ q <= monitor.threshold_low[1])
      \/ (monitor.threshold_high # None /\ q >= monitor.threshold_high[1])

C15_Step ==
  IF CheckEnds
  THEN LET returned == Last(outcomes') \in {"ok", "commit_error", "commit_error_raised"}
       IN  /\ results'.changes_detected = results.changes_detected
                + (IF returned /\ ObservedDelta # 0 THEN 1 ELSE 0)
           /\ results'.threshold_breaches = results.threshold_breaches
                + (IF returned /\ ObservedBreach THEN 1 ELSE 0)
  ELSE IF pc' = "started" /\ pc # "started"
  THEN results'.changes_detected = 0 /\ results'.threshold_breaches = 0
  ELSE /\ results'.changes_detected = results.changes_detected
       /\ results'.threshold_breaches = results.threshold_breaches

C15_AtEnd ==
  (pc = "done" /\ \A i \in 1..Len(outcomes) : outcomes[i] = "ok") =>
    /\ results.changes_detected =
         Cardinality({i \in 1..Len(active_monitors) :
                        Last(records[active_monitors[i]]).delta # 0})
    /\ results.threshold_breaches =
         Cardinality({i \in 1..Len(active_monitors) :
                        Last(records[active_monitors[i]]).threshold_breached})

\* C15: changes_detected starts a cycle at 0 and grows by one exactly on the
\* checks that returned with a non-zero delta, threshold_breaches by one
\* exactly on the checks that returned with a breached record, whatever the
\* monitor's three notify toggles are; at the end of a cycle whose checks all
\* succeeded they count the monitors whose new record has a non-zero delta,
\* respectively is breached.
C15_CountsIgnoreToggles == [][C15_Step]_vars /\ []C15_AtEnd

\* A cycle counted a change and a breach for a monitor whose toggles are all
\* off and for which nothing was emitted.
C15_Witness ==
  /\ pc = "done"
  /\ \A i \in 1..Len(outcomes) : outcomes[i] = "ok"
  /\ \E i \in 1..Len(active_monitors) :
       LET m == active_monitors[i]
       IN  /\ ~monitors[m].notify_on_restock
           /\ ~monitors[m].notify_on_purchase
           /\ ~monitors[m].notify_on_threshold
           /\ Last(records[m]).delta # 0
           /\ Last(records[m]).threshold_breached
           /\ \A j \in 1..Len(log) : log[j].monitor_config_id # m
  /\ results.changes_detected >= 1
  /\ results.threshold_breaches >= 1

C16_Step ==
  IF CheckEnds
  THEN LET mid == active_monitors[idx]
           ok == Last(outcomes') = "ok"
       IN  /\ \A m \in MonitorIds \ {mid} :
                records'[m] = records[m] /\ monitors'[m] = monitors[m]
           /\ ~ok => records'[mid] = records[mid] /\ monitors'[mid] = monitors[mid]
           /\ ok => /\ Len(records'[mid]) = Len(records[mid]) + 1
                    /\ SubSeq(records'[mid], 1, Len(records[mid])) = records[mid]
                    /\ monitors'[mid].last_checked_at = cycle_no
                    /\ monitors'[mid].last_checked_at # monitors[mid].last_checked_at
  ELSE records' = records /\ monitors' = monitors

C16_Checked ==
  \A m \in MonitorIds :
    (cycle_no > 0 /\ monitors[m].last_checked_at = cycle_no)
      <=> \E i \in 1..Len(outcomes) : checked[i] = m /\ outcomes[i] = "ok"

\* C16: the step that ends a failed check leaves the monitor's records and
\* its last_checked_at as committed and touches no other monitor's rows; the
\* step that ends a successful check commits one more record and a new
\* last_checked_at for that monitor only; no other step changes the tables.
\* So a monitor's last_checked_at is the current cycle's iff its check of
\* this cycle succeeded.
C16_PerItemTransaction == [][C16_Step]_vars /\ []C16_Checked

\* A storage failure on a later monitor of a cycle that had already committed
\* an earlier monitor's record.
C16_Witness ==
  /\ pc = "done"
  /\ \E i, j \in 1..Len(outcomes) :
       /\ i < j
       /\ outcomes[i] = "ok"
       /\ outcomes[j] \in {"flush_error", "commit_error"}
       /\ monitors[checked[i]].last_checked_at = cycle_no
       /\ Last(records[checked[i]]).quantity >= 0
       /\ monitors[checked[j]].last_checked_at < cycle_no

\* ------------------------------------ properties of the table of records

C29_Step ==
  \A m \in MonitorIds :
    LET ended_ok == /\ pc = "fetch"
                    /\ pc' # "fetch"
                    /\ active_monitors[idx] = m
                    /\ Len(outcomes') = Len(outcomes) + 1
                    /\ outcomes'[Len(outcomes')] = "ok"
    IN  /\ Len(records'[m]) >= Len(records[m])
        /\ \A i \in 1..Len(records[m]) : records'[m][i] = records[m][i]
        /\ Len(records'[m]) = Len(records[m]) + (IF ended_ok THEN 1 ELSE 0)

\* C29: no step of a cycle changes or removes a committed record; the step
\* that ends a successful check of a monitor commits exactly one more record
\* for that monitor, and every other step, the end of a failed check among
\* them, leaves every monitor's records as they were.
C29_AppendOnly == [][C29_Step]_vars

\* In a second cycle, a monitor got its second record and another check
\* failed.
C29_Witness ==
  /\ pc = "done"
  /\ cycle_no = 2
  /\ \E m \in MonitorIds : Len(records[m]) = 2
  /\ \E i \in 1..Len(outcomes) : outcomes[i] # "ok"
  /\ \E i \in 1..Len(outcomes) : outcomes[i] = "ok"

\* ------------------------------------------- termination of a cycle

C30_Bounded ==
  /\ rq.attempts <= MAX_RETRIES
  /\ \A i \in 1..Len(checked), j \in 1..Len(checked) : checked[i] = checked[j] => i = j
  /\ Len(checked) <= Len(active_monitors)
  /\ pc = "fetch" => (idx = Len(checked) /\ checked[idx] = active_monitors[idx])

InCycle == pc \in {"started", "loop", "fetch", "complete"}

\* C30: a cycle makes at most MAX_RETRIES attempts for the request of one
\* monitor, checks no monitor twice, and, once started, comes to its end:
\* it returns its results or, on a failure outside the checks, raises.
C30_Terminates == []C30_Bounded /\ (InCycle ~> (pc \in {"done", "raised"}))

\* A cycle over all the monitors returned after a check that used up its
\* attempts.
C30_Witness ==
  /\ pc = "done"
  /\ Len(checked) = NumMonitors
  /\ \E i \in 1..Len(log) :
       log[i].event_type = "monitor_error" /\ log[i].error_type = Some("RetryError")

\* --------------------------------------- properties of the scheduler

\* C17: at most one invocation of run_monitoring_cycle is in progress at any
\* time, counting the scheduler's job instances and the cycles started by
\* /monitoring/run-now.
C17_SingleFlight == inv.job_instances + inv.on_demand <= 1

\* ------------------------------------------ properties of the cache key

\* The (name, value) pairs of a params dict, whatever order they were put in.
PairSet(params) == {params[i] : i \in 1..Len(params)}

\* C20: two requests get the same cache key iff they have the same action
\* and the same set of (parameter, value) pairs: insertion order does not
\* matter, and a different action or a different pair gives a different key.
C20_CacheKey ==
  (ck.key_a # None /\ ck.key_b # None) =>
    LET a == ck.a[1]
        b == ck.b[1]
    IN  (ck.key_a = ck.key_b)
          <=> (a.action = b.action /\ PairSet(a.params) = PairSet(b.params))

\* The same two filters put in the two possible orders, and the same key.
C20_Witness ==
  /\ ck.key_a # None
  /\ ck.key_b # None
  /\ Len(ck.a[1].params) = 2
  /\ ck.a[1].params # ck.b[1].params
  /\ PairSet(ck.a[1].params) = PairSet(ck.b[1].params)
  /\ ck.a[1].action = ck.b[1].action
  /\ ck.key_a = ck.key_b

\* ---------------------------------------------- properties of the cache

\* C18: a _get_from_cache(k) made before the TTL has elapsed since the last
\* _set_cache(k, v) returns v, one made after it has elapsed returns a miss,
\* and so does one for a key never put since the last clear_cache; after a
\* miss the key has no entry. The entries are those of the last put of each
\* key, with that put's expiry, and none is left after clear_cache.
C18_CacheRoundTrip ==
  /\ wc.put = <<>> => cache = <<>>
  /\ \A k \in DOMAIN cache :
       /\ k \in DOMAIN wc.put
       /\ cache[k].data = wc.put[k].data
       /\ cache[k].expiry = wc.put[k].at + wc.cache_ttl
  /\ wc.got # None =>
       LET g == wc.got[1]
       IN  /\ IF g.key \in DOMAIN wc.put
              THEN LET p == wc.put[g.key]
                   IN  /\ g.at < p.at + wc.cache_ttl => g.result = Some(p.data)
                       /\ g.at > p.at + wc.cache_ttl => g.result = None
              ELSE g.result = None
           /\ g.result = None => g.key \notin DOMAIN cache

\* A read after the TTL of a put has elapsed: a miss, and the entry is gone
\* while another key's entry stays.
C18_Witness ==
  /\ wc.got # None
  /\ wc.cache_ttl > 0
  /\ wc.got[1].key \in DOMAIN wc.put
  /\ wc.got[1].at > wc.put[wc.got[1].key].at + wc.cache_ttl
  /\ wc.got[1].result = None
  /\ wc.got[1].key \notin DOMAIN cache
  /\ cache # <<>>

\* The last store under the call's key is what the call found (seen).
PutUntouched(c) ==
  IF c.seen = None THEN c.cache_key \notin DOMAIN wc.put
  ELSE c.cache_key \in DOMAIN wc.put /\ wc.put[c.cache_key] = c.seen[1]

\* C19: a get_products call with use_cache that begins before the TTL has
\* elapsed since the last store under its key makes no request and returns
\* the stored list, the empty list included; a call without use_cache, or
\* with nothing stored under its key, or after the TTL has elapsed, makes one
\* _make_request call; when that call returns, get_products returns the
\* normalized list and, with use_cache, has stored it under the key with the
\* client's TTL; when it raises, nothing is stored. So a call that stored and
\* an identical one within the TTL make one request between them and return
\* the same list.
C19_CachedCall ==
  LET c == wc.call
      fresh == c.seen # None /\ c.began < c.seen[1].at + wc.cache_ttl
      stale == c.seen = None \/ c.began > c.seen[1].at + wc.cache_ttl
  IN  c.state # "idle" =>
        /\ (c.use_cache /\ fresh) =>
             /\ c.state = "returned"
             /\ c.requests = 0
             /\ c.result = Some(c.seen[1].data)
        /\ (~c.use_cache \/ stale) => c.requests = 1
        /\ c.requests = 0 => (c.use_cache /\ PutUntouched(c))
        /\ (c.state = "returned" /\ c.requests = 1) =>
             /\ rq.state = "returned"
             /\ c.result = Some(normalize_products_response(PayloadResponse(rq.payload[1], 1)))
             /\ IF c.use_cache
                THEN /\ c.cache_key \in DOMAIN wc.put
                     /\ wc.put[c.cache_key] = [data |-> c.result[1], at |-> c.ended]
                     /\ c.cache_key \in DOMAIN cache
                     /\ cache[c.cache_key] =
                          [data |-> c.result[1], expiry |-> c.ended + wc.cache_ttl]
                ELSE PutUntouched(c)
        /\ c.state = "raised" => (c.requests = 1 /\ PutUntouched(c))

\* A cached call answered from the cache, some time after the store, with an
\* empty product list.
C19_Witness ==
  /\ wc.call.state = "returned"
  /\ wc.call.use_cache
  /\ wc.call.requests = 0
  /\ wc.call.result = Some(<<>>)
  /\ wc.call.seen # None
  /\ wc.call.began > wc.call.seen[1].at

\* The call in progress goes out to the upstream in this step.
CallGoesOut == wc.call.state \in {"idle", "returned", "raised"} /\ wc'.call.state = "requesting"

C34_Step ==
  /\ (wc'.call # wc.call /\ ~wc'.call.use_cache) =>
       /\ cache' = cache
       /\ wc'.put = wc.put
       /\ wc.call.state \in {"idle", "returned", "raised"} =>
            /\ wc'.call.state = "requesting"
            /\ wc'.call.requests = 1
            /\ rq'.state = "running"
            /\ rq'.attempts = 0
  /\ (wc.call.state = "requesting" /\ ~wc.call.use_cache) =>
       /\ cache' = cache
       /\ wc'.put = wc.put
       /\ wc'.call.requests = 1

\* C34: a get_products call with use_cache = False always starts a request to
\* the upstream, and from its first line to its return or raise the cache
\* holds the same entries with the same data and expiry: nothing is looked
\* up, evicted, stored or refreshed, even an entry under the call's own key
\* that has expired.
C34_BypassLeavesCache == [][C34_Step]_vars

\* A call without use_cache returned a list from the upstream while the
\* cache kept, under the call's key, the different list stored earlier.
C34_Witness ==
  /\ wc.call.state = "returned"
  /\ ~wc.call.use_cache
  /\ wc.call.requests = 1
  /\ wc.call.cache_key \in DOMAIN cache
  /\ Some(cache[wc.call.cache_key].data) # wc.call.result
  /\ wc.call.seen # None
  /\ cache[wc.call.cache_key].expiry = wc.call.seen[1].at + wc.cache_ttl

C35_Step ==
  /\ CallGoesOut =>
       LET key == wc'.call.cache_key
       IN  \/ cache' = cache
           \/ /\ wc'.call.use_cache
              /\ key \in DOMAIN cache
              /\ now > cache[key].expiry
              /\ cache' = [k \in (DOMAIN cache) \ {key} |-> cache[k]]
  /\ (wc.call.state = "requesting" /\ wc'.call.state \in {"requesting", "raised"}) =>
       /\ cache' = cache
       /\ wc'.put = wc.put
  /\ (wc.call.state = "requesting" /\ wc'.call.state = "raised") =>
       /\ rq.state = "raised"
       /\ wc'.call.result = None

\* C35: a get_products call whose request raised leaves the cache as it was
\* when the call began, except that the lookup of a call with use_cache may
\* have evicted the entry of the call's key when it had expired: the steps
\* from the request to the raise store nothing, and the cache only ever
\* holds product lists that were returned.
C35_ErrorNotCached ==
  /\ [][C35_Step]_vars
  /\ [](\A k \in DOMAIN cache :
          /\ cache[k].data \in ProductLists
          /\ k \in DOMAIN wc.put
          /\ cache[k].data = wc.put[k].data)

\* A call with use_cache found its key's entry expired, evicted it, and its
\* request raised: the key has no entry.
C35_Witness ==
  /\ wc.call.state = "raised"
  /\ wc.call.use_cache
  /\ wc.call.seen # None
  /\ wc.call.began > wc.call.seen[1].at + wc.cache_ttl
  /\ wc.call.cache_key \notin DOMAIN cache
  /\ cache # <<>>

\* ------------------------------------------- properties of _make_request

Transient(entry) ==
  ClassifyAttempt(entry.outcome) \in {"WhmcsConnectionError", "WhmcsTimeoutError"}

Terminal(entry) ==
  ClassifyAttempt(entry.outcome) \in {"WhmcsAuthenticationError", "WhmcsAPIError"}

AllTransient(n) == \A i \in 1..n : Transient(net_log[i])

\* C4: when the first N attempts of a call failed with Connection or Timeout
\* errors and attempt N+1 succeeded, the call has returned that attempt's
\* payload after exactly N+1 attempts, N+1 <= MAX_RETRIES, and makes no
\* further attempt.
C4_RetryThenSuccess ==
  (Len(net_log) > 0 /\ Last(net_log).outcome = "success"
     /\ AllTransient(Len(net_log) - 1)) =>
    /\ rq.state = "returned"
    /\ rq.payload = Some(Last(net_log).payload)
    /\ rq.attempts = Len(net_log)
    /\ rq.attempts <= MAX_RETRIES
    /\ ~ENABLED NetworkAttempt

\* Two transient failures, then a success on the last attempt allowed.
C4_Witness ==
  /\ Len(net_log) = MAX_RETRIES
  /\ AllTransient(MAX_RETRIES - 1)
  /\ Last(net_log).outcome = "success"
  /\ rq.state = "returned"

\* C5: an attempt that ended in an Authentication or API error is the last
\* attempt of its call: the call has raised exactly that error, no attempt
\* follows it, and when it was the first attempt the attempt count is 1.
C5_NoRetryOnTerminal ==
  \A i \in 1..Len(net_log) :
    Terminal(net_log[i]) =>
      /\ i = Len(net_log)
      /\ rq.state = "raised"
      /\ rq.error = ClassifyAttempt(net_log[i].outcome)
      /\ rq.attempts = i
      /\ ~ENABLED NetworkAttempt

\* An authentication error on the first attempt, and an API error met after
\* a retry.
C5_Witness ==
  /\ Len(net_log) >= 1
  /\ Terminal(Last(net_log))
  /\ rq.state = "raised"
  /\ (Len(net_log) = 1 /\ rq.error = "WhmcsAuthenticationError")
       \/ (Len(net_log) = 2 /\ rq.error = "WhmcsAPIError")

\* C6: when every attempt failed with a Connection or Timeout error, the call
\* has made exactly MAX_RETRIES attempts and raised the last transient
\* failure itself.
C6_RaisesLastTransient ==
  (rq.state = "raised" /\ AllTransient(Len(net_log))) =>
    /\ rq.attempts = MAX_RETRIES
    /\ Len(net_log) = MAX_RETRIES
    /\ rq.error = ClassifyAttempt(Last(net_log).outcome)

\* The wait the retry policy prescribes before attempt k + 1.
WaitBefore(k) == Min(10, Max(1, Pow2(k - 1)))

\* C31: within one _make_request call a wait was slept after attempt k exactly
\* when attempt k failed with a Connection or Timeout error and attempt k + 1
\* is still to come or was made; that wait is min(10, max(1, 2^(k-1))) seconds,
\* the waits never decrease and lie within [1, 10], and no wait follows the
\* call's last attempt, whether it succeeded, ended in an Authentication or
\* API error, or used up the attempts.
C31_WaitsBetweenAttempts ==
  LET n == Len(rq.waits)
  IN  /\ n = IF rq.state = "running" THEN Len(net_log) ELSE Max(0, Len(net_log) - 1)
      /\ \A k \in 1..n :
           /\ Transient(net_log[k])
           /\ rq.waits[k] = WaitBefore(k)
           /\ rq.waits[k] >= 1
           /\ rq.waits[k] <= 10
      /\ \A k \in 1..(n - 1) : rq.waits[k] <= rq.waits[k + 1]
      /\ n < MAX_RETRIES

\* A call that failed transiently on every attempt: it slept 1 s and 2 s, and
\* nothing after the third attempt.
C31_Witness ==
  /\ rq.state = "raised"
  /\ Len(net_log) = MAX_RETRIES
  /\ AllTransient(MAX_RETRIES)
  /\ rq.waits = <<1, 2>>

\* C33: test_connection returns True exactly when its request succeeded; an
\* authentication failure ends the call at that attempt with
\* WhmcsAuthenticationError (after one attempt when it was the first); when
\* every attempt failed with a Connection or Timeout error the call made
\* MAX_RETRIES attempts and raised WhmcsConnectionError or WhmcsTimeoutError;
\* and the cache is as it was when the call began, with nothing got from it
\* or put into it.
C33_TestConnection ==
  /\ tc.state = "returned" =>
       /\ tc.result = Some(TRUE)
       /\ Last(net_log).outcome = "success"
  /\ (tc.state \in {"returned", "raised"} /\ Last(net_log).outcome = "success") =>
       tc.state = "returned"
  /\ (tc.state = "raised"
        /\ ClassifyAttempt(Last(net_log).outcome) = "WhmcsAuthenticationError") =>
       /\ tc.raised = Some("WhmcsAuthenticationError")
       /\ AllTransient(Len(net_log) - 1)
  /\ (tc.state # "idle" /\ Len(net_log) >= 1
        /\ ClassifyAttempt(net_log[1].outcome) = "WhmcsAuthenticationError") =>
       /\ Len(net_log) = 1
       /\ rq.attempts = 1
  /\ (tc.state = "raised" /\ AllTransient(Len(net_log))) =>
       /\ Len(net_log) = MAX_RETRIES
       /\ tc.raised \in {Some("WhmcsConnectionError"), Some("WhmcsTimeoutError")}
  /\ tc.state # "idle" =>
       /\ tc.cache_before = Some(cache)
       /\ wc.got = None
       /\ wc.put = <<>>

\* ------------------------------------------------ properties of the bus

\* How many times h occurs in the sequence.
Occurrences(seq, h) == Cardinality({i \in 1..Len(seq) : seq[i] = h})

EmRegistered == Len(em.reg_specific) + Len(em.reg_global)

\* C7: one emit calls every handler registered for the event's kind and
\* every global handler exactly once per registration, whichever of them
\* raise: a handler that raised is followed by the next handler, and emit
\* returns without raising.
C7_HandlerIsolation ==
  /\ em.state # "raised"
  /\ (em.state = "dispatching" /\ Len(em.invoked) < EmRegistered) => ENABLED InvokeHandler
  /\ em.state = "returned" =>
       /\ Len(em.invoked) = EmRegistered
       /\ \A h \in HandlerIds \cup {LogHandler} :
            Occurrences(em.invoked, h)
              = Occurrences(em.reg_specific, h) + Occurrences(em.reg_global, h)

\* An emit that returned after a handler for the kind raised and a global
\* handler subscribed after log_event_handler was still called.
C7_Witness ==
  /\ em.state = "returned"
  /\ Len(em.reg_specific) >= 1
  /\ Len(em.reg_global) >= 2
  /\ em.raised[1]
  /\ Len(em.invoked) = EmRegistered

\* C8: emit calls the handlers subscribed to the event's kind in their
\* registration order, then the global handlers in theirs, and nothing else;
\* it returns only when all of them have been called.
C8_DispatchOrder ==
  LET expected == em.reg_specific \o em.reg_global
  IN  /\ em.state \in {"dispatching", "returned"} =>
           /\ Len(em.invoked) <= Len(expected)
           /\ em.invoked = SubSeq(expected, 1, Len(em.invoked))
      /\ em.state = "returned" => em.invoked = expected

\* A returned emit with a handler for the kind, two global handlers, and a
\* handler subscribed only to another kind, which was not called.
C8_Witness ==
  /\ em.state = "returned"
  /\ Len(em.reg_specific) >= 1
  /\ Len(em.reg_global) >= 2
  /\ em.reg_global[1] = LogHandler
  /\ \E k \in DOMAIN handlers, h \in HandlerIds :
       /\ k # em.event_type
       /\ Occurrences(handlers[k], h) > 0
       /\ Occurrences(em.invoked, h) = 0

C40_Step ==
  /\ (em.state # "dispatching" /\ em'.state = "dispatching") =>
       em'.all_handlers = HandlersFor(handlers, em'.event_type) \o global_handlers
  /\ em.state = "dispatching" =>
       /\ em'.all_handlers = em.all_handlers
       /\ em'.event_type = em.event_type
       /\ em'.state \in {"dispatching", "returned"}
       /\ em'.state = "returned" => em.invoked = em.all_handlers

\* C40: the handlers one emit calls are those registered when it started, in
\* that order: whatever the handlers it calls subscribe or clear on the bus
\* meanwhile, the emit calls each handler of that list once and no other, and
\* returns after the last; the emit that starts next takes the registrations
\* as they are then.
C40_HandlersFixedAtStart ==
  /\ [][C40_Step]_vars
  /\ [](em.state \in {"dispatching", "returned"} =>
          /\ Len(em.invoked) <= Len(em.all_handlers)
          /\ em.invoked = SubSeq(em.all_handlers, 1, Len(em.invoked))
          /\ em.all_handlers = em.reg_specific \o em.reg_global)

\* An emit of stock_increased that returned after calling its three handlers
\* once each, although the first of them had cleared the registrations and
\* the last had subscribed itself again: the bus now holds that one
\* registration only.
C40_Witness ==
  /\ em.state = "returned"
  /\ em.event_type = "stock_increased"
  /\ em.all_handlers = <<1, LogHandler, 2>>
  /\ em.invoked = em.all_handlers
  /\ handlers = <<>>
  /\ global_handlers = <<2>>

\* ------------------------------------------- properties of the detector

\* C9: detect_change_type returns "initial" iff there is no previous
\* quantity; with a previous quantity it returns "restock" iff delta > 0,
\* "purchase" iff delta < 0 and "unchanged" iff delta = 0.
C9_ChangeType ==
  det.change_type # None =>
    LET r == det.change_type[1]
        a == det.args
    IN  /\ r \in {"initial", "restock", "purchase", "unchanged"}
        /\ r = "initial" <=> a.previous_quantity = None
        /\ a.previous_quantity # None =>
             /\ r = "restock" <=> a.delta > 0
             /\ r = "purchase" <=> a.delta < 0
             /\ r = "unchanged" <=> a.delta = 0

\* A restock reported against a previous quantity of zero.
C9_Witness ==
  /\ det.change_type = Some("restock")
  /\ det.args.previous_quantity = Some(0)
  /\ det.args.delta > 0

LowHit == det.args.threshold_low # None
            /\ det.args.current_quantity <= det.args.threshold_low[1]

HighHit == det.args.threshold_high # None
             /\ det.args.current_quantity >= det.args.threshold_high[1]

\* C10: check_threshold_breach returns (true, low) iff a low threshold is
\* configured and current <= low; (true, high) iff that is not so and a high
\* threshold is configured and current >= high; (false, none) otherwise. When
\* both conditions hold the result is low.
C10_ThresholdBreach ==
  det.breach # None =>
    LET r == det.breach[1]
    IN  /\ r = <<TRUE, Some("low")>> <=> LowHit
        /\ r = <<TRUE, Some("high")>> <=> (~LowHit /\ HighHit)
        /\ r = <<FALSE, None>> <=> (~LowHit /\ ~HighHit)
        /\ (LowHit /\ HighHit) => r[2] = Some("low")

\* Both thresholds breached at once (low >= high), reported as low.
C10_Witness ==
  /\ det.breach = Some(<<TRUE, Some("low")>>)
  /\ LowHit
  /\ HighHit
  /\ det.args.threshold_low[1] >= det.args.threshold_high[1]

====
